---- MODULE Spec2Model ----
(***************************************************************************)
(* A model of dsjob.c, the DataStage job-control command line client.      *)
(*                                                                         *)
(* One behaviour is one invocation of the program: main consumes the       *)
(* global options, looks the sub-command up in MajorOption, calls its      *)
(* handler and returns the handler's status.  The DataStage engine (the    *)
(* DSxxx functions of dsapi.h) is the environment: every call returns one  *)
(* of the statuses of EngineStatus, chosen nondeterministically.  Every    *)
(* engine call is one step and is appended to `calls`; every line written  *)
(* to stdout / stderr is appended to `out` / `err`.                        *)
(***************************************************************************)
EXTENDS Integers, Sequences, FiniteSets, TLC

(***************************************************************************)
(* Status codes.  DSJE_DSJOB_ERROR is dsjob.c's own; the others are the    *)
(* values dsapi.h (included at line 22) gives the names the code uses.     *)
(***************************************************************************)
DSJE_DSJOB_ERROR == -9999
MAX_PARAMS == 10
MAX_MSG_LEN == 4096
DSJE_NOERROR == 0
DSJE_BADHANDLE == -1
DSJE_NOMORE == -1001
DSJE_NOT_AVAILABLE == -1007

\* The statuses an engine call that returns a status may return.
EngineStatus == {DSJE_NOERROR, DSJE_BADHANDLE, DSJE_NOMORE, DSJE_NOT_AVAILABLE}
\* The codes DSGetLastError may report after a call that failed.
EngineErrors == EngineStatus \ {DSJE_NOERROR}
\* The statuses a release call (unlock, close) may return.
ReleaseStatus == {DSJE_NOERROR, DSJE_BADHANDLE}

\* the runs of characters stdin holds before its end, at most
MaxStdin == 2

\* the log entries a find-first / find-next sequence yields, at most
MaxLogEntries == 2

\* windows.h is included unconditionally: the build is the WIN32 one.
WIN32 == TRUE

(***************************************************************************)
(* C strings.  A token is a TLA+ string; s[0] of C is Char(s, 0).          *)
(***************************************************************************)
Char(s, k) == IF k < Len(s) THEN SubSeq(s, k + 1, k + 1) ELSE ""

\* &s[1]: the string after its first character
StrFrom1(s) == SubSeq(s, 2, Len(s))

\* strchr(s, c) as the 0-based offset of the first c in s, or -1 for NULL
RECURSIVE strchrFrom(_, _, _)
strchrFrom(s, c, k) ==
    IF k >= Len(s) THEN -1
    ELSE IF Char(s, k) = c THEN k
    ELSE strchrFrom(s, c, k + 1)

strchr(s, c) == strchrFrom(s, c, 0)

Digits == <<"0", "1", "2", "3", "4", "5", "6", "7", "8", "9">>

IsDigit(c) == \E d \in 1..10 : Digits[d] = c

DigitVal(c) == (CHOOSE d \in 1..10 : Digits[d] = c) - 1

IsSpace(c) == c \in {" ", "\t", "\n"}

\* the digits of s from offset k on, accumulated into acc
RECURSIVE atoiDigits(_, _, _)
atoiDigits(s, k, acc) ==
    IF IsDigit(Char(s, k)) THEN atoiDigits(s, k + 1, 10 * acc + DigitVal(Char(s, k)))
    ELSE acc

RECURSIVE skipSpace(_, _)
skipSpace(s, k) == IF IsSpace(Char(s, k)) THEN skipSpace(s, k + 1) ELSE k

\* atoi: leading white space, an optional sign, then digits up to the first
\* character that is no digit; 0 when there is no digit
atoi(s) ==
    LET k == skipSpace(s, 0)
    IN  IF Char(s, k) = "-" THEN 0 - atoiDigits(s, k + 1, 0)
        ELSE IF Char(s, k) = "+" THEN atoiDigits(s, k + 1, 0)
        ELSE atoiDigits(s, k, 0)

(***************************************************************************)
(* The table of primary commands, in the order of the source.              *)
(***************************************************************************)
MajorOption ==
    << "run", "stop", "lprojects", "ljobs", "lstages", "llinks", "jobinfo",
       "stageinfo", "linkinfo", "lparams", "paraminfo", "log", "logsum",
       "logdetail", "lognewest" >>

N_MAJOR_OPTIONS == Len(MajorOption)

\* the loop of main over the table: the first index whose name is tok, or 0
RECURSIVE FindMajorFrom(_, _)
FindMajorFrom(tok, k) ==
    IF k > N_MAJOR_OPTIONS THEN 0
    ELSE IF MajorOption[k] = tok THEN k
    ELSE FindMajorFrom(tok, k + 1)

\* a lookup that compares only as many characters as the name in the table has
FindMajor_Prefix(tok) ==
    LET hits == {k \in 1..N_MAJOR_OPTIONS :
                    /\ Len(tok) >= Len(MajorOption[k])
                    /\ SubSeq(tok, 1, Len(MajorOption[k])) = MajorOption[k]}
    IN  IF hits = { } THEN 0 ELSE CHOOSE k \in hits : \A m \in hits : k <= m

\* a lookup that takes the token for an abbreviation of a name in the table
FindMajor_Abbreviation(tok) ==
    LET hits == {k \in 1..N_MAJOR_OPTIONS :
                    /\ Len(tok) <= Len(MajorOption[k])
                    /\ SubSeq(MajorOption[k], 1, Len(tok)) = tok}
    IN  IF hits = { } THEN 0 ELSE CHOOSE k \in hits : \A m \in hits : k <= m

FindMajor(tok) == FindMajorFrom(tok, 1)

\* the four global options, in the order main tests them
GlobalOptions == << "-domain", "-server", "-user", "-password" >>

(***************************************************************************)
(* The argument vectors the program is started with.  argv[0] of C is the  *)
(* program name; Argv(k) is argv[k] of main.                               *)
(***************************************************************************)
GlobalPrefixes ==
    { << >>,
      << "-domain", "d" >>,
      << "-domain", "d", "-server", "host" >>,
      << "-server", "host", "-domain", "d" >>,
      << "-domain", "-server" >>,
      << "-user", "-run" >>,
      << "-user", "u", "-password", "pw" >>,
      << "-domain", "d", "-server", "host", "-user", "u", "-password", "pw" >>,
      << "-server", "host", "-server", "h2" >>,
      << "-password" >> }

\* sub-command tails tried behind every global prefix
ShortTails ==
    { << >>,
      << "-stop", "p", "j" >>,
      << "-run", "p", "j" >>,
      << "-ljobs" >>,
      << "-bogus", "p" >>,
      << "stop", "p", "j" >> }

\* n times "-param k=1"
RECURSIVE ParamFlags(_)
ParamFlags(n) == IF n = 0 THEN << >> ELSE << "-param", "k=1" >> \o ParamFlags(n - 1)

\* sub-command tails tried without global options
CommandTails ==
    { << "-run", "-wait", "p", "j" >>,
      << "-run", "-warn", "-5", "p", "j" >>,
      << "-run", "-warn", "0", "-rows", "10", "-mode", "RESET", "-wait", "p", "j" >>,
      << "-run", "-param", "a=1", "p", "j" >>,
      << "-run", "-param", "a=1", "-param", "b=x=y", "-wait", "p", "j" >>,
      << "-run", "-rows", "x7", "-param", "=v", "p", "j" >>,
      << "-run", "-mode", "BOGUS", "p", "j" >>,
      << "-run", "-param", "novalue", "p", "j" >>,
      << "-run", "-warn" >>,
      << "-run", "-nowait", "1", "p", "j" >>,
      << "-run", "p" >>,
      << "-run", "p", "j", "x" >>,
      << "-run" >> \o ParamFlags(MAX_PARAMS) \o << "p", "j" >>,
      << "-run" >> \o ParamFlags(MAX_PARAMS + 1) \o << "p", "j" >>,
      << "-run", "-mode", "RESET", "-warn", "3", "-rows", "5", "-mode", "VALIDATE",
         "-warn", "1", "-rows", "2", "-param", "a=1", "-wait", "p", "j" >>,
      << "-run", "-param", "n=42", "-param", "m=abc", "p", "j" >>,
      << "-log", "-info", "p", "j", "x" >>,
      << "-logsum", "-type" >>,
      << "/run", "/wait", "p", "j" >>,
      << "-stop", "p" >>,
      << "-lprojects" >>,
      << "-lprojects", "x" >>,
      << "-ljobs", "p" >>,
      << "-lstages", "p", "j" >>,
      << "-lstages", "p" >>,
      << "-llinks", "p", "j", "s" >>,
      << "-llinks", "p", "j" >>,
      << "-jobinfo", "p", "j" >>,
      << "-jobinfo", "p", "j", "x" >>,
      << "-stageinfo", "p", "j", "s" >>,
      << "-stageinfo", "p", "j" >>,
      << "-linkinfo", "p", "j", "s", "l" >>,
      << "-linkinfo", "p", "j", "s" >>,
      << "-lparams", "p", "j" >>,
      << "-lparams" >>,
      << "-paraminfo", "p", "j", "a" >>,
      << "-paraminfo", "p", "j" >>,
      << "-log", "p", "j" >>,
      << "-log", "-info", "-warn", "p", "j" >>,
      << "-log", "-fatal", "p", "j" >>,
      << "-log", "p" >>,
      << "-logsum", "p", "j" >>,
      << "-logsum", "-type", "INFO", "-max", "2", "-type", "FATAL", "p", "j" >>,
      << "-logsum", "-max", "1", "-max", "2", "p", "j" >>,
      << "-logsum", "-type", "bogus", "p", "j" >>,
      << "-logsum", "-max", "p", "j" >>,
      << "-logsum", "-since", "1", "p", "j" >>,
      << "-logdetail", "p", "j", "7" >>,
      << "-logdetail", "p", "j" >>,
      << "-lognewest", "p", "j" >>,
      << "-lognewest", "p", "j", "WARNING" >>,
      << "-lognewest", "p", "j", "bogus" >>,
      << "-lognewest", "p" >>,
      << "-ru", "p", "j" >>,
      << "-runx", "p", "j" >>,
      << "-" >>,
      << "" >> }

ArgVectors ==
    { << "dsjob" >> \o g \o t : g \in GlobalPrefixes, t \in ShortTails }
        \cup { << "dsjob" >> \o t : t \in CommandTails }

(***************************************************************************)
(* The state.                                                              *)
(***************************************************************************)
(***************************************************************************)
(* Standard input, read by jobLog only.  It is given as runs of one        *)
(* character, so that a text longer than MAX_MSG_LEN can be supplied; it   *)
(* ends with EOF.                                                          *)
(***************************************************************************)
\* what getchar may return before EOF: a letter, a newline, a bell, Ctrl-d
StdinChars == {"a", "\n", "^G", "^D"}

\* isprint for the characters of StdinChars
isprint(ch) == ch = "a"

\* the runs: single characters, and letters up to and one short of the cap
StdinRuns ==
    {[ch |-> c, count |-> 1] : c \in StdinChars}
        \cup {[ch |-> "a", count |-> k] : k \in {MAX_MSG_LEN - 1, MAX_MSG_LEN}}

StdinStreams == UNION {[1..n -> StdinRuns] : n \in 0..MaxStdin}

\* the command lines that name the log command
ReadsStdin(v) == \E k \in 1..Len(v) : v[k] \in {"-log", "/log"}

\* k copies of the character c
RECURSIVE Repeat(_, _)
Repeat(c, k) ==
    IF k = 0 THEN ""
    ELSE IF k % 2 = 0 THEN LET h == Repeat(c, k \div 2) IN h \o h
    ELSE c \o Repeat(c, k - 1)

\* a loop that stores the whole of a run
Stored_NoCap(n, k) == k

\* how many of the k stored characters of a run the loop stores when it
\* holds n already: it stops reading once n reaches MAX_MSG_LEN
Stored(n, k) == IF k < MAX_MSG_LEN - n THEN k ELSE MAX_MSG_LEN - n

VARIABLES
    stdin,      \* what standard input holds, as runs of one character
    argv,       \* main: the argument vector, argv[0] included
    argc,       \* main: the arguments that remain
    argPos,     \* main: the position of the next argument
    optIdx,     \* main: which of the four global options is tested next
    conn,       \* main: domain, server, user, password ("NULL" when not given)
    result,     \* main: the exit status
    pc,         \* where the program is
    cmd,        \* the name of the handler that runs ("" before dispatch)
    opt,        \* the handler's locals set while it validates its arguments
    status,     \* the handler's local status ("unset" until first assigned)
    i,          \* the handler's loop index
    event,      \* jobLogSum: the log entry the last find call filled in
    message,    \* jobLog: the characters collected from stdin
    nread,      \* jobLog: the runs of stdin the loop has consumed
    paramInfo,  \* setParam: the declared type DSGetParamInfo filled in
    projOpen,   \* engine: open project handles
    jobOpen,    \* engine: open job handles
    jobLocked,  \* engine: whether the job is locked by this client
    calls,      \* every engine call made so far, in order
    out,        \* what was written to stdout, in order
    err         \* what was written to stderr, in order

mainVars == << argv, stdin, argc, argPos, optIdx, conn, result >>
handlerVars == << cmd, opt, status, i, event, message, nread, paramInfo, paramInfo >>
engineVars == << projOpen, jobOpen, jobLocked, calls >>
ioVars == << out, err >>
vars == << mainVars, pc, handlerVars, engineVars, ioVars >>

\* argv[k] of main; the element at argc of a C argument vector is NULL
Argv(k) == IF k < Len(argv) THEN argv[k + 1] ELSE "NULL"

\* one engine call: its name, its arguments (the handle left out; a structure
\* the call fills in comes last, as it is after the call), whether it
\* succeeded, and the status or id it returned
Call(op, args, ok, ret) == [op |-> op, args |-> args, ok |-> ok, ret |-> ret]

\* one line of output: its text and the number printed in it
Line(text, n) == [text |-> text, n |-> n]

\* the locals a handler sets while it validates its arguments, as declared
NoOpt ==
    [ project |-> "unset", job |-> "unset", stage |-> "unset", link |-> "unset",
      param |-> << >>, nParams |-> 0, name |-> "unset", eventId |-> 0,
      mode |-> "DSJ_RUNNORMAL", warningLimit |-> -1, rowLimit |-> 0,
      waitForJob |-> FALSE, type |-> "unset", maxNumber |-> 0,
      badOptions |-> FALSE, oobStore |-> FALSE ]

\* a result structure written to stdout: which one, and whether the engine
\* had filled it in (the query that was to fill it returned DSJE_NOERROR)
Payload(what, filled) == [text |-> what, n |-> IF filled THEN 1 ELSE 0]

NoEvent == [eventId |-> -1, type |-> "unset"]

Init ==
    /\ argv \in ArgVectors
    /\ stdin \in (IF ReadsStdin(argv) THEN StdinStreams ELSE {<< >>})
    /\ argc = Len(argv)
    /\ argPos = 0
    /\ optIdx = 1
    /\ conn = [domain |-> "NULL", server |-> "NULL", user |-> "NULL", password |-> "NULL"]
    /\ result = DSJE_NOERROR
    /\ pc = "main"
    /\ cmd = ""
    /\ opt = NoOpt
    /\ status = "unset"
    /\ i = 0
    /\ event = NoEvent
    /\ message = ""
    /\ nread = 0
    /\ paramInfo = "unset"
    /\ projOpen = 0
    /\ jobOpen = 0
    /\ jobLocked = FALSE
    /\ calls = << >>
    /\ out = << >>
    /\ err = << >>

(***************************************************************************)
(* main, lines 1388-1482.                                                  *)
(***************************************************************************)
\* if (argc < 2) goto reportError; argc--; argPos = 1;
MainStart ==
    /\ pc = "main"
    /\ IF argc < 2
       THEN /\ pc' = "reportError"
            /\ UNCHANGED << argc, argPos >>
       ELSE /\ pc' = "options"
            /\ argc' = argc - 1
            /\ argPos' = 1
    /\ UNCHANGED << argv, stdin, optIdx, conn, result, handlerVars, engineVars, ioVars >>

\* conn with the value of global option number k set to v
SetConn(k, v) ==
    CASE k = 1 -> [conn EXCEPT !.domain = v]
      [] k = 2 -> [conn EXCEPT !.server = v]
      [] k = 3 -> [conn EXCEPT !.user = v]
      [] k = 4 -> [conn EXCEPT !.password = v]

\* a main that takes the global options in any order and any number of times
GlobalOption_AnyOrder ==
    /\ pc = "options"
    /\ IF \E k \in 1..Len(GlobalOptions) : Argv(argPos) = GlobalOptions[k]
       THEN IF argc < 3
            THEN /\ pc' = "reportError"
                 /\ UNCHANGED << argc, argPos, optIdx, conn >>
            ELSE /\ conn' = SetConn(CHOOSE k \in 1..Len(GlobalOptions) :
                                        Argv(argPos) = GlobalOptions[k], Argv(argPos + 1))
                 /\ argPos' = argPos + 2
                 /\ argc' = argc - 2
                 /\ pc' = "options"
                 /\ UNCHANGED optIdx
       ELSE /\ pc' = "command"
            /\ UNCHANGED << argc, argPos, optIdx, conn >>
    /\ UNCHANGED << argv, stdin, result, handlerVars, engineVars, ioVars >>

\* a main that takes an option's value when no token is left after it
GlobalOption_NoCommandLeft ==
    /\ pc = "options"
    /\ IF Argv(argPos) = GlobalOptions[optIdx]
       THEN IF argc < 2
            THEN /\ pc' = "reportError"
                 /\ UNCHANGED << argc, argPos, optIdx, conn >>
            ELSE /\ conn' = SetConn(optIdx, Argv(argPos + 1))
                 /\ argPos' = argPos + 2
                 /\ argc' = argc - 2
                 /\ optIdx' = optIdx + 1
                 /\ pc' = IF optIdx = Len(GlobalOptions) THEN "command" ELSE "options"
       ELSE /\ optIdx' = optIdx + 1
            /\ pc' = IF optIdx = Len(GlobalOptions) THEN "command" ELSE "options"
            /\ UNCHANGED << argc, argPos, conn >>
    /\ UNCHANGED << argv, stdin, result, handlerVars, engineVars, ioVars >>

\* a main that takes no token with the option prefix for a value
GlobalOption_ValueNotOption ==
    /\ pc = "options"
    /\ IF Argv(argPos) = GlobalOptions[optIdx]
       THEN IF argc < 3 \/ Char(Argv(argPos + 1), 0) = "-"
            THEN /\ pc' = "reportError"
                 /\ UNCHANGED << argc, argPos, optIdx, conn >>
            ELSE /\ conn' = SetConn(optIdx, Argv(argPos + 1))
                 /\ argPos' = argPos + 2
                 /\ argc' = argc - 2
                 /\ optIdx' = optIdx + 1
                 /\ pc' = IF optIdx = Len(GlobalOptions) THEN "command" ELSE "options"
       ELSE /\ optIdx' = optIdx + 1
            /\ pc' = IF optIdx = Len(GlobalOptions) THEN "command" ELSE "options"
            /\ UNCHANGED << argc, argPos, conn >>
    /\ UNCHANGED << argv, stdin, result, handlerVars, engineVars, ioVars >>

\* one of the four blocks "if (strcmp(argv[argPos], "-xxx") == 0) { ... }"
GlobalOption ==
    /\ pc = "options"
    /\ IF Argv(argPos) = GlobalOptions[optIdx]
       THEN IF argc < 3
            THEN /\ pc' = "reportError"
                 /\ UNCHANGED << argc, argPos, optIdx, conn >>
            ELSE /\ conn' = SetConn(optIdx, Argv(argPos + 1))
                 /\ argPos' = argPos + 2
                 /\ argc' = argc - 2
                 /\ optIdx' = optIdx + 1
                 /\ pc' = IF optIdx = Len(GlobalOptions) THEN "command" ELSE "options"
       ELSE /\ optIdx' = optIdx + 1
            /\ pc' = IF optIdx = Len(GlobalOptions) THEN "command" ELSE "options"
            /\ UNCHANGED << argc, argPos, conn >>
    /\ UNCHANGED << argv, stdin, result, handlerVars, engineVars, ioVars >>

\* the option-prefix test of lines 1436-1441
HasPrefixChar(tok) == Char(tok, 0) = "-" \/ (WIN32 /\ Char(tok, 0) = "/")

\* a main that sets up the connection before it looks the command up
MainCommand_ConnectFirst ==
    /\ pc = "command"
    /\ calls' = Append(calls,
            Call("DSSetServerParams",
                 << conn.domain, conn.user, conn.password, conn.server >>, TRUE, 0))
    /\ IF argc < 1 \/ ~HasPrefixChar(Argv(argPos))
       THEN /\ pc' = "reportError"
            /\ UNCHANGED << cmd, err >>
       ELSE LET k == FindMajor(StrFrom1(Argv(argPos)))
            IN  IF k = 0
                THEN /\ err' = Append(err, Line("Invalid/unknown primary command switch.", 0))
                     /\ pc' = "reportError"
                     /\ UNCHANGED cmd
                ELSE /\ cmd' = MajorOption[k]
                     /\ pc' = "validate"
                     /\ UNCHANGED err
    /\ UNCHANGED << mainVars, opt, status, i, event, message, nread, paramInfo,
                    projOpen, jobOpen, jobLocked, out >>

\* lines 1433-1452 and 1471: the primary command is checked and looked up; when
\* it is found the connection is set up and the handler is entered
MainCommand ==
    /\ pc = "command"
    /\ IF argc < 1 \/ ~HasPrefixChar(Argv(argPos))
       THEN /\ pc' = "reportError"
            /\ UNCHANGED << cmd, calls, err >>
       ELSE LET k == FindMajor(StrFrom1(Argv(argPos)))
            IN  IF k = 0
                THEN /\ err' = Append(err, Line("Invalid/unknown primary command switch.", 0))
                     /\ pc' = "reportError"
                     /\ UNCHANGED << cmd, calls >>
                ELSE /\ calls' = Append(calls,
                            Call("DSSetServerParams",
                                 << conn.domain, conn.user, conn.password, conn.server >>,
                                 TRUE, 0))
                     /\ cmd' = MajorOption[k]
                     /\ pc' = "validate"
                     /\ UNCHANGED err
    /\ UNCHANGED << mainVars, opt, status, i, event, message, nread, paramInfo,
                    projOpen, jobOpen, jobLocked, out >>

\* the names of the table, as the usage text lists them
UsageNames == [k \in 1..N_MAJOR_OPTIONS |-> Line("-" \o MajorOption[k], 0)]

\* reportError: the usage text, the command names, result = DSJE_DSJOB_ERROR
ReportError ==
    /\ pc = "reportError"
    /\ err' = err \o << Line("Command syntax:", 0) >> \o UsageNames
    /\ result' = DSJE_DSJOB_ERROR
    /\ pc' = "exit"
    /\ UNCHANGED << argv, stdin, argc, argPos, optIdx, conn, handlerVars, engineVars, out >>

\* a main that asks for the last error message only after a failure
MainReport_OnlyOnError ==
    /\ pc = "returned"
    /\ IF result # DSJE_NOERROR
       THEN \E errText \in {"NULL", "text"} :
              /\ calls' = Append(calls, Call("DSGetLastErrorMsg", << >>, errText # "NULL", 0))
              /\ err' = err \o << Line("Status code =", result) >>
                     \o (IF errText # "NULL"
                         THEN << Line("Last recorded error message =", 0) >> ELSE << >>)
       ELSE UNCHANGED << calls, err >>
    /\ pc' = "exit"
    /\ UNCHANGED << mainVars, handlerVars, projOpen, jobOpen, jobLocked, out >>

\* lines 1454-1466: what main does with the value the handler returned
MainReport ==
    /\ pc = "returned"
    /\ \E errText \in {"NULL", "text"} :
         /\ calls' = Append(calls, Call("DSGetLastErrorMsg", << >>, errText # "NULL", 0))
         /\ err' = err
                \o (IF result # DSJE_NOERROR THEN << Line("Status code =", result) >> ELSE << >>)
                \o (IF errText # "NULL"
                    THEN << Line("Last recorded error message =", 0) >> ELSE << >>)
    /\ pc' = "exit"
    /\ UNCHANGED << mainVars, handlerVars, projOpen, jobOpen, jobLocked, out >>

\* the arguments the handler is called with: argc - 1 and &argv[argPos + 1]
HArgc == argc - 1

HArgv(k) == Argv(argPos + 1 + k)

(***************************************************************************)
(* The handlers' argument validation.  Each operator is the code between   *)
(* the handler's entry and its first engine call; it yields the locals.    *)
(***************************************************************************)
\* the test (argv[i][0] == '-') || (argv[i][0] == '/') of the option loops
IsOptionToken(tok) == Char(tok, 0) = "-" \/ Char(tok, 0) = "/"

\* a parser that takes the first two of the tokens left for project and job
TakeProjectJob_AtLeast(o, k) ==
    IF k + 2 <= HArgc
    THEN [o EXCEPT !.project = HArgv(k), !.job = HArgv(k + 1)]
    ELSE [o EXCEPT !.badOptions = TRUE]

\* "Must be two parameters left... project and job": lines 243-249
TakeProjectJob(o, k) ==
    IF k + 2 = HArgc
    THEN [o EXCEPT !.project = HArgv(k), !.job = HArgv(k + 1)]
    ELSE [o EXCEPT !.badOptions = TRUE]

\* an option loop that stores a -param value whether or not it has an '='
RunOption_AnyParam(o, k) ==
    LET name == StrFrom1(HArgv(k))
        arg == HArgv(k + 1)
    IN  IF name = "wait" THEN [i |-> k, o |-> [o EXCEPT !.waitForJob = TRUE]]
        ELSE IF k + 1 >= HArgc THEN [i |-> k + 1, o |-> [o EXCEPT !.badOptions = TRUE]]
        ELSE [ i |-> k + 1,
               o |-> CASE name = "mode" ->
                            IF arg = "NORMAL" THEN [o EXCEPT !.mode = "DSJ_RUNNORMAL"]
                            ELSE IF arg = "RESET" THEN [o EXCEPT !.mode = "DSJ_RUNRESET"]
                            ELSE IF arg = "VALIDATE" THEN [o EXCEPT !.mode = "DSJ_RUNVALIDATE"]
                            ELSE [o EXCEPT !.badOptions = TRUE]
                      [] name = "param" ->
                            IF FALSE THEN [o EXCEPT !.badOptions = TRUE]
                            ELSE [o EXCEPT !.param = Append(o.param, arg),
                                           !.oobStore = o.oobStore \/ o.nParams >= MAX_PARAMS,
                                           !.nParams = o.nParams + 1]
                      [] name = "warn" -> [o EXCEPT !.warningLimit = atoi(arg)]
                      [] name = "rows" -> [o EXCEPT !.rowLimit = atoi(arg)]
                      [] OTHER -> [o EXCEPT !.badOptions = TRUE] ]

\* one pass of the body of jobRun's option loop at index k: the locals and
\* the index after the body (before the loop's own i++)
RunOption(o, k) ==
    LET name == StrFrom1(HArgv(k))
        arg == HArgv(k + 1)
    IN  IF name = "wait" THEN [i |-> k, o |-> [o EXCEPT !.waitForJob = TRUE]]
        ELSE IF k + 1 >= HArgc THEN [i |-> k + 1, o |-> [o EXCEPT !.badOptions = TRUE]]
        ELSE [ i |-> k + 1,
               o |-> CASE name = "mode" ->
                            IF arg = "NORMAL" THEN [o EXCEPT !.mode = "DSJ_RUNNORMAL"]
                            ELSE IF arg = "RESET" THEN [o EXCEPT !.mode = "DSJ_RUNRESET"]
                            ELSE IF arg = "VALIDATE" THEN [o EXCEPT !.mode = "DSJ_RUNVALIDATE"]
                            ELSE [o EXCEPT !.badOptions = TRUE]
                      [] name = "param" ->
                            IF strchr(arg, "=") = -1 THEN [o EXCEPT !.badOptions = TRUE]
                            ELSE [o EXCEPT !.param = Append(o.param, arg),
                                           !.oobStore = o.oobStore \/ o.nParams >= MAX_PARAMS,
                                           !.nParams = o.nParams + 1]
                      [] name = "warn" -> [o EXCEPT !.warningLimit = atoi(arg)]
                      [] name = "rows" -> [o EXCEPT !.rowLimit = atoi(arg)]
                      [] OTHER -> [o EXCEPT !.badOptions = TRUE] ]

\* one pass of the body of jobLog's option loop: lines 998-1005
LogOption(o, k) ==
    LET name == StrFrom1(HArgv(k))
    IN  [ i |-> k,
          o |-> IF name = "info" THEN [o EXCEPT !.type = "DSJ_LOGINFO"]
                ELSE IF name = "warn" THEN [o EXCEPT !.type = "DSJ_LOGWARNING"]
                ELSE [o EXCEPT !.badOptions = TRUE] ]

\* the event type names of jobLogSum and jobLogNewest
LogTypeNames ==
    { "INFO", "WARNING", "FATAL", "REJECT", "STARTED", "RESET", "BATCH", "OTHER" }

\* an option loop in which the first -type and the first -max given stand
LogSumOption_FirstWins(o, k) ==
    LET name == StrFrom1(HArgv(k))
        arg == HArgv(k + 1)
    IN  IF k + 1 >= HArgc THEN [i |-> k + 1, o |-> [o EXCEPT !.badOptions = TRUE]]
        ELSE [ i |-> k + 1,
               o |-> IF name = "type"
                     THEN IF arg \in LogTypeNames
                          THEN IF o.type = "DSJ_LOGANY"
                               THEN [o EXCEPT !.type = "DSJ_LOG" \o arg] ELSE o
                          ELSE [o EXCEPT !.badOptions = TRUE]
                     ELSE IF name = "max"
                          THEN IF o.maxNumber = 0
                               THEN [o EXCEPT !.maxNumber = atoi(arg)] ELSE o
                     ELSE [o EXCEPT !.badOptions = TRUE] ]

\* one pass of the body of jobLogSum's option loop: lines 1091-1119
LogSumOption(o, k) ==
    LET name == StrFrom1(HArgv(k))
        arg == HArgv(k + 1)
    IN  IF k + 1 >= HArgc THEN [i |-> k + 1, o |-> [o EXCEPT !.badOptions = TRUE]]
        ELSE [ i |-> k + 1,
               o |-> IF name = "type"
                     THEN IF arg \in LogTypeNames THEN [o EXCEPT !.type = "DSJ_LOG" \o arg]
                          ELSE [o EXCEPT !.badOptions = TRUE]
                     ELSE IF name = "max" THEN [o EXCEPT !.maxNumber = atoi(arg)]
                     ELSE [o EXCEPT !.badOptions = TRUE] ]

\* for (i = 0; (i < argc) && !badOptions && (option token); i++) <body>
RECURSIVE OptionLoop(_, _, _)
OptionLoop(h, o, k) ==
    IF k < HArgc /\ ~o.badOptions /\ IsOptionToken(HArgv(k))
    THEN LET r == CASE h = "run" -> RunOption(o, k)
                    [] h = "log" -> LogOption(o, k)
                    [] h = "logsum" -> LogSumOption(o, k)
         IN  OptionLoop(h, r.o, r.i + 1)
    ELSE [i |-> k, o |-> o]

\* jobRun, jobLog, jobLogSum: the option loop, then project and job
ParseFlags(h, o) ==
    LET r == OptionLoop(h, o, 0)
    IN  TakeProjectJob(r.o, r.i)

\* jobLogNewest, lines 1273-1301
ParseLogNewest(o) ==
    IF HArgc < 2 \/ HArgc > 3 THEN [o EXCEPT !.badOptions = TRUE]
    ELSE LET o1 == [o EXCEPT !.project = HArgv(0), !.job = HArgv(1)]
         IN  IF HArgc = 3
             THEN IF HArgv(2) \in LogTypeNames
                  THEN [o1 EXCEPT !.type = "DSJ_LOG" \o HArgv(2)]
                  ELSE [o1 EXCEPT !.badOptions = TRUE]
             ELSE o1

\* the handlers that take positional arguments only: their fixed count
PositionalCount ==
    [ stop |-> 2, lprojects |-> 0, ljobs |-> 1, lstages |-> 2, llinks |-> 3,
      jobinfo |-> 2, stageinfo |-> 3, linkinfo |-> 4, lparams |-> 2,
      paraminfo |-> 3, logdetail |-> 3 ]

\* "if (argc != n) return DSJE_DSJOB_ERROR; project = argv[0]; ..."
ParsePositional(h, o) ==
    IF HArgc # PositionalCount[h] THEN [o EXCEPT !.badOptions = TRUE]
    ELSE CASE h = "lprojects" -> o
           [] h = "ljobs" -> [o EXCEPT !.project = HArgv(0)]
           [] h \in {"stop", "lstages", "jobinfo", "lparams"} ->
                [o EXCEPT !.project = HArgv(0), !.job = HArgv(1)]
           [] h \in {"llinks", "stageinfo"} ->
                [o EXCEPT !.project = HArgv(0), !.job = HArgv(1), !.stage = HArgv(2)]
           [] h = "linkinfo" ->
                [o EXCEPT !.project = HArgv(0), !.job = HArgv(1),
                          !.stage = HArgv(2), !.link = HArgv(3)]
           [] h = "paraminfo" ->
                [o EXCEPT !.project = HArgv(0), !.job = HArgv(1), !.name = HArgv(2)]
           [] h = "logdetail" ->
                [o EXCEPT !.project = HArgv(0), !.job = HArgv(1),
                          !.eventId = atoi(HArgv(2))]

\* the locals of handler h after its validation
ParseArgs(h) ==
    CASE h = "run" -> ParseFlags(h, NoOpt)
      [] h = "log" -> ParseFlags(h, [NoOpt EXCEPT !.type = "DSJ_LOGINFO"])
      [] h = "logsum" -> ParseFlags(h, [NoOpt EXCEPT !.type = "DSJ_LOGANY"])
      [] h = "lognewest" -> ParseLogNewest([NoOpt EXCEPT !.type = "DSJ_LOGANY"])
      [] OTHER -> ParsePositional(h, NoOpt)

\* the handlers whose status local is initialised where it is declared
\* (jobLProjects: result, line 371; jobLogNewest: status, line 1265)
InitialStatus(h) ==
    IF h \in {"lprojects", "lognewest"} THEN DSJE_NOERROR ELSE "unset"

\* the command name as the handler's usage line spells it (line 376)
UsageName(h) == IF h = "lprojects" THEN "lproject" ELSE h

\* what a store past the end of param[MAX_PARAMS] (line 231) may do: the
\* stored pointer is kept where the parameter loop reads it back, or the
\* process faults
OverrunOutcomes == {"kept", "fault"}

\* the handler is entered and validates its arguments; on a validation
\* failure it prints its usage and returns DSJE_DSJOB_ERROR to main
Validate ==
    /\ pc = "validate"
    /\ \E u \in OverrunOutcomes :
         LET parsed == ParseArgs(cmd)
         IN  /\ ~parsed.oobStore => u = "kept"
             /\ opt' = parsed
             /\ IF parsed.oobStore /\ u = "fault"
                THEN /\ pc' = "faulted"
                     /\ UNCHANGED << err, result >>
                ELSE IF parsed.badOptions
                THEN /\ err' = Append(err, Line("Invalid arguments: dsjob -"
                                                    \o UsageName(cmd), 0))
                     /\ result' = DSJE_DSJOB_ERROR
                     /\ pc' = "returned"
                ELSE /\ pc' = IF cmd = "lprojects" THEN "projectList" ELSE "openProject"
                     /\ UNCHANGED << err, result >>
    /\ status' = InitialStatus(cmd)
    /\ UNCHANGED << argv, stdin, argc, argPos, optIdx, conn, cmd, i, event, message, nread, paramInfo,
                    engineVars, out >>

(***************************************************************************)
(* Opening and closing the project and the job.  The code is the same in   *)
(* every handler but jobLProjects (no project) and jobLJobs (no job, no    *)
(* message when the open fails).                                           *)
(***************************************************************************)
\* the handlers that open a job in the project
OpensJob(h) == h \notin {"lprojects", "ljobs"}

\* where a handler continues once its handles are open
Body(h) ==
    CASE h = "run" -> "lock"
      [] h = "ljobs" -> "projectInfo"
      [] h \in {"lstages", "lparams", "llinks"} -> "list"
      [] h \in {"jobinfo", "stageinfo", "linkinfo"} -> "info"
      [] h \in {"stop", "paraminfo", "logdetail"} -> "call"
      [] h = "log" -> "getchar"
      [] h = "logsum" -> "findFirst"
      [] h = "lognewest" -> "newestId"

\* a handler that goes on to close the project with the job left open
Unwind_SkipJob(h) == "closeProject"

\* where a handler continues once its work on the open handles is done: the
\* job is closed, then the project (jobLJobs holds a project only)
Unwind(h) == IF OpensJob(h) THEN "closeJob" ELSE "closeProject"

\* hProject = DSOpenProject(project)
OpenProject ==
    /\ pc = "openProject"
    /\ \E ok \in BOOLEAN :
         /\ calls' = Append(calls, Call("DSOpenProject", << opt.project >>, ok, 0))
         /\ projOpen' = IF ok THEN projOpen + 1 ELSE projOpen
         /\ pc' = IF ~ok THEN "projectError"
                  ELSE IF OpensJob(cmd) THEN "openJob" ELSE Body(cmd)
    /\ UNCHANGED << mainVars, handlerVars, jobOpen, jobLocked, ioVars >>

\* hJob = DSOpenJob(hProject, job)
OpenJob ==
    /\ pc = "openJob"
    /\ \E ok \in BOOLEAN :
         /\ calls' = Append(calls, Call("DSOpenJob", << opt.job >>, ok, 0))
         /\ jobOpen' = IF ok THEN jobOpen + 1 ELSE jobOpen
         /\ pc' = IF ok THEN Body(cmd) ELSE "jobError"
    /\ UNCHANGED << mainVars, handlerVars, projOpen, jobLocked, ioVars >>

\* what a handler prints beside status = DSGetLastError()
LastErrorText(at) ==
    CASE at = "projectError" ->
            IF cmd = "ljobs" THEN << >> ELSE << Line("ERROR: Failed to open project", 0) >>
      [] at = "jobError" -> << Line("ERROR: Failed to open job", 0) >>
      [] at = "listError" -> << >>
      [] at = "newestError" -> << Line("Error %d getting event details", status') >>

\* a handler that closes the job whose open failed
AfterLastError_CloseUnopened(at) ==
    CASE at = "projectError" -> "return"
      [] at = "jobError" -> "closeJob"
      [] at = "listError" -> "return"
      [] at = "newestError" -> "closeJob"

\* a handler that returns at once when the job open failed
AfterLastError_LeakProject(at) ==
    CASE at = "projectError" -> "return"
      [] at = "jobError" -> "return"
      [] at = "listError" -> "return"
      [] at = "newestError" -> "closeJob"

\* a handler that goes on to open the job although the project open failed
AfterLastError_OpenJobAnyway(at) ==
    CASE at = "projectError" -> IF OpensJob(cmd) THEN "openJob" ELSE "return"
      [] at = "jobError" -> "closeProject"
      [] at = "listError" -> "return"
      [] at = "newestError" -> Unwind(cmd)

\* where a handler continues after status = DSGetLastError()
AfterLastError(at) ==
    CASE at = "projectError" -> "return"
      [] at = "jobError" -> "closeProject"
      [] at = "listError" -> "return"
      [] at = "newestError" -> Unwind(cmd)

\* status = DSGetLastError(), after a call that reported its failure by a
\* NULL or negative result; the engine then holds the code of that failure
LastError ==
    /\ pc \in {"projectError", "jobError", "listError", "newestError"}
    /\ \E e \in EngineErrors :
         /\ calls' = Append(calls, Call("DSGetLastError", << >>, TRUE, e))
         /\ status' = e
    /\ err' = err \o LastErrorText(pc)
    /\ pc' = AfterLastError(pc)
    /\ UNCHANGED << mainVars, cmd, opt, i, event, message, nread, paramInfo,
                    projOpen, jobOpen, jobLocked, out >>

\* a handler that returns the status of a failed DSCloseJob
CloseJob_StatusFromRelease ==
    /\ pc = "closeJob"
    /\ \E r \in ReleaseStatus :
         /\ calls' = Append(calls, Call("DSCloseJob", << >>, r = DSJE_NOERROR, r))
         /\ status' = IF r # DSJE_NOERROR THEN r ELSE status
    /\ jobOpen' = jobOpen - 1
    /\ pc' = "closeProject"
    /\ UNCHANGED << mainVars, cmd, opt, i, event, message, nread, paramInfo,
                    projOpen, jobLocked, ioVars >>

\* (void) DSCloseJob(hJob)
CloseJob ==
    /\ pc = "closeJob"
    /\ \E r \in ReleaseStatus :
         calls' = Append(calls, Call("DSCloseJob", << >>, r = DSJE_NOERROR, r))
    /\ jobOpen' = jobOpen - 1
    /\ pc' = "closeProject"
    /\ UNCHANGED << mainVars, handlerVars, projOpen, jobLocked, ioVars >>

\* (void) DSCloseProject(hProject)
CloseProject ==
    /\ pc = "closeProject"
    /\ \E r \in ReleaseStatus :
         calls' = Append(calls, Call("DSCloseProject", << >>, r = DSJE_NOERROR, r))
    /\ projOpen' = projOpen - 1
    /\ pc' = "return"
    /\ UNCHANGED << mainVars, handlerVars, jobOpen, jobLocked, ioVars >>

\* a main whose result is the low byte of what the handler returned
Return_Truncated ==
    /\ pc = "return"
    /\ result' = status % 256
    /\ pc' = "returned"
    /\ UNCHANGED << argv, stdin, argc, argPos, optIdx, conn, handlerVars, engineVars, ioVars >>

\* return status; and main's result = MajorOption[i].optionHandler(...)
Return ==
    /\ pc = "return"
    /\ result' = status
    /\ pc' = "returned"
    /\ UNCHANGED << argv, stdin, argc, argPos, optIdx, conn, handlerVars, engineVars, ioVars >>

(***************************************************************************)
(* The handlers that make one call on the job: jobStop, jobParamInfo,      *)
(* jobLogDetail, and jobLog once its message is read.                      *)
(***************************************************************************)
\* the call, its arguments, the message on failure, the output on success
SingleCall(h) ==
    CASE h = "stop" ->
            [ op |-> "DSStopJob", args |-> << >>,
              fail |-> Line("Error stopping job", 0), print |-> << >> ]
      [] h = "paraminfo" ->
            [ op |-> "DSGetParamInfo", args |-> << opt.name >>,
              fail |-> Line("Error %d getting info for parameter", 1),
              print |-> << Line("paramInfo", 0) >> ]
      [] h = "logdetail" ->
            [ op |-> "DSGetLogEntry", args |-> << opt.eventId >>,
              fail |-> Line("Error %d getting event details", 1),
              print |-> << Line("logDetail", 0) >> ]
      [] h = "log" ->
            [ op |-> "DSLogEvent", args |-> << opt.type, message >>,
              fail |-> Line("Error adding log entry", 0), print |-> << >> ]

\* status = <the call>; if (status != DSJE_NOERROR) <message> else <output>
OneCall ==
    /\ pc = "call"
    /\ LET c == SingleCall(cmd)
       IN  \E s \in EngineStatus :
             /\ calls' = Append(calls, Call(c.op, c.args, s = DSJE_NOERROR, s))
             /\ status' = s
             /\ IF s # DSJE_NOERROR
                THEN /\ err' = Append(err, Line(c.fail.text, IF c.fail.n = 1 THEN s ELSE 0))
                     /\ UNCHANGED out
                ELSE /\ out' = out \o c.print
                     /\ UNCHANGED err
    /\ pc' = Unwind(cmd)
    /\ UNCHANGED << mainVars, cmd, opt, i, event, message, nread, paramInfo,
                    projOpen, jobOpen, jobLocked >>

(***************************************************************************)
(* The listing handlers.                                                   *)
(***************************************************************************)
\* jobLProjects, lines 380-384
ProjectList ==
    /\ pc = "projectList"
    /\ \E ok \in BOOLEAN :
         /\ calls' = Append(calls, Call("DSGetProjectList", << >>, ok, 0))
         /\ out' = IF ok THEN Append(out, Payload("projectList", TRUE)) ELSE out
         /\ pc' = IF ok THEN "return" ELSE "listError"
    /\ UNCHANGED << mainVars, handlerVars, projOpen, jobOpen, jobLocked, err >>

\* jobLJobs, lines 409-416
ProjectInfo ==
    /\ pc = "projectInfo"
    /\ \E s \in EngineStatus :
         /\ calls' = Append(calls,
                Call("DSGetProjectInfo", << "DSJ_JOBLIST" >>, s = DSJE_NOERROR, s))
         /\ IF s = DSJE_NOT_AVAILABLE
            THEN /\ out' = Append(out, Line("<none>", 0))
                 /\ status' = DSJE_NOERROR
            ELSE /\ out' = IF s = DSJE_NOERROR
                           THEN Append(out, Payload("jobList", TRUE)) ELSE out
                 /\ status' = s
    /\ pc' = Unwind(cmd)
    /\ UNCHANGED << mainVars, cmd, opt, i, event, message, nread, paramInfo,
                    projOpen, jobOpen, jobLocked, err >>

\* the list query of jobLStages, jobLParams and jobLLinks
ListQuery(h) ==
    CASE h = "lstages" ->
            [ op |-> "DSGetJobInfo", args |-> << "DSJ_STAGELIST" >>,
              fail |-> "Error %d getting stage list", list |-> "stageList" ]
      [] h = "lparams" ->
            [ op |-> "DSGetJobInfo", args |-> << "DSJ_PARAMLIST" >>,
              fail |-> "Error %d getting parameter list", list |-> "paramList" ]
      [] h = "llinks" ->
            [ op |-> "DSGetStageInfo", args |-> << opt.stage, "DSJ_LINKLIST" >>,
              fail |-> "Error %d getting link list", list |-> "linkList" ]

\* jobLStages (lines 459-468), jobLParams (828-837): if / else if / else.
\* jobLLinks (515-524): the test of the error follows the "not available"
\* block as an if of its own, so its else branch is taken after that block
\* too and printStrList walks stageInfo.info.linkList, which nothing filled in
ReadsUnfilledList(h, s) == h = "llinks" /\ s = DSJE_NOT_AVAILABLE

\* what walking a list pointer that was never set may do: find an empty
\* list, print what it finds, or fault
UnfilledReads == {"empty", "garbage", "fault"}

List ==
    /\ pc = "list"
    /\ LET q == ListQuery(cmd)
       IN  \E s \in EngineStatus, u \in UnfilledReads :
             /\ ~ReadsUnfilledList(cmd, s) => u = "empty"
             /\ calls' = Append(calls, Call(q.op, q.args, s = DSJE_NOERROR, s))
             /\ status' = IF s = DSJE_NOT_AVAILABLE THEN DSJE_NOERROR ELSE s
             /\ out' = out
                    \o (IF s = DSJE_NOT_AVAILABLE THEN << Line("<none>", 0) >> ELSE << >>)
                    \o (IF s = DSJE_NOERROR THEN << Payload(q.list, TRUE) >>
                        ELSE IF ReadsUnfilledList(cmd, s) /\ u = "garbage"
                             THEN << Payload(q.list, FALSE) >>
                        ELSE << >>)
             /\ err' = IF s \notin {DSJE_NOERROR, DSJE_NOT_AVAILABLE}
                       THEN Append(err, Line(q.fail, s)) ELSE err
             /\ pc' = IF ReadsUnfilledList(cmd, s) /\ u = "fault"
                      THEN "faulted" ELSE Unwind(cmd)
    /\ UNCHANGED << mainVars, cmd, opt, i, event, message, nread, paramInfo,
                    projOpen, jobOpen, jobLocked >>

(***************************************************************************)
(* The info handlers: a fixed sequence of queries, each assigning status.  *)
(***************************************************************************)
\* the queries in order; soft: "not available" is printed, not an error
InfoQueries(h) ==
    CASE h = "jobinfo" ->
            << [op |-> "DSGetJobInfo", key |-> "DSJ_JOBSTATUS", soft |-> FALSE],
               [op |-> "DSGetJobInfo", key |-> "DSJ_JOBCONTROLLER", soft |-> TRUE],
               [op |-> "DSGetJobInfo", key |-> "DSJ_JOBSTARTTIMESTAMP", soft |-> TRUE],
               [op |-> "DSGetJobInfo", key |-> "DSJ_JOBWAVENO", soft |-> FALSE],
               [op |-> "DSGetJobInfo", key |-> "DSJ_USERSTATUS", soft |-> TRUE] >>
      [] h = "stageinfo" ->
            << [op |-> "DSGetStageInfo", key |-> "DSJ_STAGETYPE", soft |-> FALSE],
               [op |-> "DSGetStageInfo", key |-> "DSJ_STAGEINROWNUM", soft |-> FALSE],
               [op |-> "DSGetStageInfo", key |-> "DSJ_STAGELASTERR", soft |-> TRUE] >>
      [] h = "linkinfo" ->
            << [op |-> "DSGetLinkInfo", key |-> "DSJ_LINKROWCOUNT", soft |-> FALSE],
               [op |-> "DSGetLinkInfo", key |-> "DSJ_LINKLASTERR", soft |-> TRUE] >>

\* the status local after query number k of handler h returned s: every
\* query assigns it; "not available" from the last query becomes success
\* (lines 645-646, 716-717, 775)
InfoStatus(h, k, s) ==
    IF k = Len(InfoQueries(h)) /\ s = DSJE_NOT_AVAILABLE THEN DSJE_NOERROR ELSE s

\* one query of jobJobInfo (572-646), jobStageInfo (696-717), jobLinkInfo (766-783)
Info ==
    /\ pc = "info"
    /\ LET q == InfoQueries(cmd)[i + 1]
       IN  \E s \in EngineStatus :
             /\ calls' = Append(calls, Call(q.op, << q.key >>, s = DSJE_NOERROR, s))
             /\ status' = InfoStatus(cmd, i + 1, s)
             /\ out' = IF s = DSJE_NOERROR THEN Append(out, Payload(q.key, TRUE))
                       ELSE IF q.soft /\ s = DSJE_NOT_AVAILABLE
                            THEN Append(out, Line("not available", 0))
                       ELSE out
             /\ err' = IF s # DSJE_NOERROR /\ ~(q.soft /\ s = DSJE_NOT_AVAILABLE)
                       THEN Append(err, Line("Error %d getting " \o q.key, s)) ELSE err
    /\ i' = i + 1
    /\ pc' = IF i + 1 = Len(InfoQueries(cmd)) THEN Unwind(cmd) ELSE "info"
    /\ UNCHANGED << mainVars, cmd, opt, event, message, nread, paramInfo,
                    projOpen, jobOpen, jobLocked >>

(***************************************************************************)
(* jobLogNewest and the message of jobLog.                                 *)
(***************************************************************************)
\* the ids DSGetNewestLogId may return; a negative id reports a failure
NewestIds == {-1, 0, 7}

\* lines 1324-1331
NewestId ==
    /\ pc = "newestId"
    /\ \E id \in NewestIds :
         /\ calls' = Append(calls, Call("DSGetNewestLogId", << opt.type >>, id >= 0, id))
         /\ out' = IF id >= 0 THEN Append(out, Line("Newsest id = %d", id)) ELSE out
         /\ pc' = IF id < 0 THEN "newestError" ELSE Unwind(cmd)
    /\ UNCHANGED << mainVars, handlerVars, projOpen, jobOpen, jobLocked, err >>

\* one pass or more of "while (n < MAX_MSG_LEN)", lines 1041-1058, on the next
\* run of standard input; n is Len(message).  The prompt is printed before
\* the first pass, "Message read." once the loop is left.
GetChar ==
    /\ pc = "getchar"
    /\ LET prompt == IF nread = 0
                     THEN << Line("Enter message text, terminating with Ctrl-d", 0) >>
                     ELSE << >>
           leave == /\ pc' = "call"
                    /\ out' = out \o prompt \o << Line("Message read.", 0) >>
                    /\ UNCHANGED message
       IN  IF Len(message) < MAX_MSG_LEN
           THEN IF nread >= Len(stdin)
                THEN leave /\ UNCHANGED nread
                ELSE LET run == stdin[nread + 1]
                     IN  /\ nread' = nread + 1
                         /\ IF WIN32 /\ run.ch = "^D"
                            THEN leave
                            ELSE /\ pc' = "getchar"
                                 /\ out' = out \o prompt
                                 /\ message' =
                                      IF run.ch = "\n" \/ isprint(run.ch)
                                      THEN message
                                           \o Repeat(run.ch, Stored(Len(message), run.count))
                                      ELSE message
           ELSE leave /\ UNCHANGED nread
    /\ UNCHANGED << mainVars, cmd, opt, status, i, event, paramInfo, engineVars, err >>

(***************************************************************************)
(* jobLogSum, lines 1153-1198.                                             *)
(***************************************************************************)
\* the entries the engine may fill in: two ids, one with a type the switch
\* of lines 1160-1189 does not know
LogEvents ==
    { [eventId |-> 1, type |-> "DSJ_LOGINFO"], [eventId |-> 2, type |-> "DSJ_LOGBATCH"],
      [eventId |-> 3, type |-> "unknown"] }

\* the successful find calls made so far
Yielded ==
    Cardinality({k \in 1..Len(calls) :
        calls[k].op \in {"DSFindFirstLogEntry", "DSFindNextLogEntry"} /\ calls[k].ok})

\* what a find call may return: an entry and DSJE_NOERROR, or a failure
\* status; the engine's log is finite (at most MaxLogEntries entries)
FindResults ==
    { [status |-> DSJE_NOERROR, event |-> e] : e \in
            IF Yielded < MaxLogEntries THEN LogEvents ELSE { } }
        \cup { [status |-> s, event |-> event] : s \in EngineErrors }

\* a loop written while (status != DSJE_NOMORE)
AfterFind_UntilNoMore(s) == IF s # DSJE_NOMORE THEN "printEntry" ELSE "endLog"

\* a loop that asks for the next entry before it prints the one it holds
AfterFind_SkipPrint(s) == IF s = DSJE_NOERROR THEN "findNext" ELSE "endLog"

\* a loop that leaves only at DSJE_NOMORE and spins on any other failure
AfterFind_SpinOnError(s) ==
    IF s = DSJE_NOERROR THEN "printEntry" ELSE IF s = DSJE_NOMORE THEN "endLog" ELSE "spin"

\* while (status == DSJE_NOERROR): where jobLogSum continues after a find call
AfterFind(s) == IF s = DSJE_NOERROR THEN "printEntry" ELSE "endLog"

\* status = DSFindFirstLogEntry(hJob, type, startTime, endTime, maxNumber, &event)
FindFirst ==
    /\ pc = "findFirst"
    /\ \E r \in FindResults :
         /\ calls' = Append(calls,
                Call("DSFindFirstLogEntry", << opt.type, 0, 0, opt.maxNumber, r.event >>,
                     r.status = DSJE_NOERROR, r.status))
         /\ status' = r.status
         /\ event' = r.event
         /\ pc' = AfterFind(r.status)
    /\ UNCHANGED << mainVars, cmd, opt, i, message, nread, paramInfo,
                    projOpen, jobOpen, jobLocked, ioVars >>

\* the label the switch of lines 1160-1189 prints for a type
LogTypeLabel(t) ==
    IF t \in {"DSJ_LOG" \o n : n \in LogTypeNames} THEN SubSeq(t, 8, Len(t)) ELSE "????"

\* the body of the while loop up to the next find call: the entry is printed
PrintEntry ==
    /\ pc = "printEntry"
    /\ out' = Append(out, Line(LogTypeLabel(event.type), event.eventId))
    /\ pc' = "findNext"
    /\ UNCHANGED << mainVars, handlerVars, engineVars, err >>

\* status = DSFindNextLogEntry(hJob, &event)
FindNext ==
    /\ pc = "findNext"
    /\ \E r \in FindResults :
         /\ calls' = Append(calls,
                Call("DSFindNextLogEntry", << r.event >>, r.status = DSJE_NOERROR, r.status))
         /\ status' = r.status
         /\ event' = r.event
         /\ pc' = AfterFind(r.status)
    /\ UNCHANGED << mainVars, cmd, opt, i, message, nread, paramInfo,
                    projOpen, jobOpen, jobLocked, ioVars >>

\* an end of loop that leaves DSJE_NOMORE in status
EndLogStatus_Keep(s) == s

\* an end of loop that takes DSJE_NOT_AVAILABLE for the end of the log too
EndLogStatus_SoftNotAvailable(s) ==
    IF s \in {DSJE_NOMORE, DSJE_NOT_AVAILABLE} THEN DSJE_NOERROR ELSE s

\* the status local after the loop, lines 1195-1196
EndLogStatus(s) == IF s = DSJE_NOMORE THEN DSJE_NOERROR ELSE s

\* after the loop: DSJE_NOMORE is the end of the log, anything else an error
EndLog ==
    /\ pc = "endLog"
    /\ status' = EndLogStatus(status)
    /\ err' = IF status = DSJE_NOMORE THEN err
              ELSE Append(err, Line("Error %d getting log summary", status))
    /\ pc' = Unwind(cmd)
    /\ UNCHANGED << mainVars, cmd, opt, i, event, message, nread, paramInfo, engineVars, out >>

(***************************************************************************)
(* setParam, lines 122-183.                                                *)
(***************************************************************************)
\* the parameter types setParam's switch knows
KnownParamTypes ==
    { "DSJ_PARAMTYPE_STRING", "DSJ_PARAMTYPE_ENCRYPTED", "DSJ_PARAMTYPE_INTEGER",
      "DSJ_PARAMTYPE_FLOAT", "DSJ_PARAMTYPE_PATHNAME", "DSJ_PARAMTYPE_LIST",
      "DSJ_PARAMTYPE_DATE", "DSJ_PARAMTYPE_TIME" }

\* the declared types the engine may report: the known ones and another code
DeclaredTypes == KnownParamTypes \cup {"DSJ_PARAMTYPE_OTHER"}

\* the types the job declares for the parameter name: its parameter k is
\* a string, any other parameter is of any type
DeclaredTypesOf(name) == IF name = "k" THEN {"DSJ_PARAMTYPE_STRING"} ELSE DeclaredTypes

\* value = strchr(param, '='); *value++ = '\0': the name before the first '='
ParamName(p) == SubSeq(p, 1, strchr(p, "="))

\* ... and the value after it
ParamValue(p) == SubSeq(p, strchr(p, "=") + 2, Len(p))

\* the digits of s from offset k on: their count
RECURSIVE digitCount(_, _)
digitCount(s, k) == IF IsDigit(Char(s, k)) THEN 1 + digitCount(s, k + 1) ELSE 0

RECURSIVE pow10(_)
pow10(n) == IF n = 0 THEN 1 ELSE 10 * pow10(n - 1)

\* atof for decimal text without exponent, as the fraction num / den: white
\* space, a sign, digits, a point, digits; 0 when there is no digit
atof(s) ==
    LET k == skipSpace(s, 0)
        neg == Char(s, k) = "-"
        b == IF Char(s, k) \in {"-", "+"} THEN k + 1 ELSE k
        nInt == digitCount(s, b)
        nFrac == IF Char(s, b + nInt) = "." THEN digitCount(s, b + nInt + 1) ELSE 0
        whole == atoiDigits(s, b, 0)
        mag == IF nFrac = 0 THEN whole ELSE atoiDigits(s, b + nInt + 1, whole)
    IN  [num |-> IF neg THEN 0 - mag ELSE mag, den |-> pow10(nFrac)]

\* a switch whose default keeps the declared type code as the tag
ParamData_KeepDeclaredTag(type, value) ==
    IF type = "DSJ_PARAMTYPE_INTEGER"
    THEN [paramType |-> type, member |-> "pInt", str |-> "", num |-> atoi(value), den |-> 1]
    ELSE [paramType |-> type, member |-> "pString", str |-> value, num |-> 0, den |-> 1]

\* the DSPARAM built by the switch of lines 145-176: the type tag, the union
\* member that is set, and its value
ParamData(type, value) ==
    CASE type = "DSJ_PARAMTYPE_STRING" ->
            [paramType |-> type, member |-> "pString", str |-> value, num |-> 0, den |-> 1]
      [] type = "DSJ_PARAMTYPE_ENCRYPTED" ->
            [paramType |-> type, member |-> "pEncrypt", str |-> value, num |-> 0, den |-> 1]
      [] type = "DSJ_PARAMTYPE_INTEGER" ->
            [paramType |-> type, member |-> "pInt", str |-> "", num |-> atoi(value), den |-> 1]
      [] type = "DSJ_PARAMTYPE_FLOAT" ->
            [paramType |-> type, member |-> "pFloat", str |-> "",
             num |-> atof(value).num, den |-> atof(value).den]
      [] type = "DSJ_PARAMTYPE_PATHNAME" ->
            [paramType |-> type, member |-> "pPath", str |-> value, num |-> 0, den |-> 1]
      [] type = "DSJ_PARAMTYPE_LIST" ->
            [paramType |-> type, member |-> "pListValue", str |-> value, num |-> 0, den |-> 1]
      [] type = "DSJ_PARAMTYPE_DATE" ->
            [paramType |-> type, member |-> "pDate", str |-> value, num |-> 0, den |-> 1]
      [] type = "DSJ_PARAMTYPE_TIME" ->
            [paramType |-> type, member |-> "pTime", str |-> value, num |-> 0, den |-> 1]
      [] OTHER ->
            [paramType |-> "DSJ_PARAMTYPE_STRING", member |-> "pString", str |-> value,
             num |-> 0, den |-> 1]

(***************************************************************************)
(* jobRun, lines 277-312.                                                  *)
(***************************************************************************)
\* a jobRun that unlocks only when the run succeeded
AfterRun_NoUnlockOnError(st) ==
    IF st = DSJE_NOERROR /\ opt.waitForJob THEN "waitJob"
    ELSE IF st = DSJE_NOERROR THEN "unlock"
    ELSE "closeJob"

\* where jobRun continues after the wait block
AfterRun(st) == IF st = DSJE_NOERROR /\ opt.waitForJob THEN "waitJob" ELSE "unlock"

\* ... after the parameter loop: if (status == DSJE_NOERROR) DSRunJob
AfterParams(st) == IF st = DSJE_NOERROR THEN "runJob" ELSE AfterRun(st)

\* a loop over the parameters that does not test status
ParamLoop_ContinueOnError(st, k) ==
    IF k < opt.nParams THEN "getParamInfo" ELSE AfterParams(st)

\* for (i = 0; (status == DSJE_NOERROR) && (i < nParams); i++), tested at i = k
ParamLoop(st, k) ==
    IF st = DSJE_NOERROR /\ k < opt.nParams THEN "getParamInfo" ELSE AfterParams(st)

\* a jobRun that sets the row limit whatever the warning limit call returned
AfterWarn_RowsRegardless(st) ==
    IF opt.rowLimit # 0 THEN "setRows" ELSE ParamLoop(st, 0)

\* ... after the warning limit: if ((rowLimit != 0) && (status == DSJE_NOERROR))
AfterWarn(st) ==
    IF opt.rowLimit # 0 /\ st = DSJE_NOERROR THEN "setRows" ELSE ParamLoop(st, 0)

\* a jobRun that sets the warning limit whether or not one was given
AfterLock_AlwaysSetWarn(st) == "setWarn"

\* ... after the lock succeeded: if (warningLimit >= 0)
AfterLock(st) == IF opt.warningLimit >= 0 THEN "setWarn" ELSE AfterWarn(st)

\* a jobRun that reports a failed lock and carries on as if it held the lock
Lock_ProceedOnFailure ==
    /\ pc = "lock"
    /\ \E s \in EngineStatus :
         /\ calls' = Append(calls, Call("DSLockJob", << >>, s = DSJE_NOERROR, s))
         /\ status' = s
         /\ jobLocked' = (s = DSJE_NOERROR)
         /\ err' = IF s # DSJE_NOERROR
                   THEN Append(err, Line("ERROR: Failed to lock job", 0)) ELSE err
         /\ pc' = AfterLock(DSJE_NOERROR)
    /\ i' = 0
    /\ UNCHANGED << mainVars, cmd, opt, event, message, nread, paramInfo,
                    projOpen, jobOpen, out >>

\* status = DSLockJob(hJob)
Lock ==
    /\ pc = "lock"
    /\ \E s \in EngineStatus :
         /\ calls' = Append(calls, Call("DSLockJob", << >>, s = DSJE_NOERROR, s))
         /\ status' = s
         /\ jobLocked' = (s = DSJE_NOERROR)
         /\ err' = IF s # DSJE_NOERROR
                   THEN Append(err, Line("ERROR: Failed to lock job", 0)) ELSE err
         /\ pc' = IF s # DSJE_NOERROR THEN Unwind(cmd) ELSE AfterLock(s)
    /\ i' = 0
    /\ UNCHANGED << mainVars, cmd, opt, event, message, nread, paramInfo,
                    projOpen, jobOpen, out >>

\* status = DSSetJobLimit(hJob, DSJ_LIMITWARN, warningLimit), and the same
\* for DSJ_LIMITROWS
SetLimit ==
    /\ pc \in {"setWarn", "setRows"}
    /\ \E s \in EngineStatus :
         /\ calls' = Append(calls,
                IF pc = "setWarn"
                THEN Call("DSSetJobLimit", << "DSJ_LIMITWARN", opt.warningLimit >>,
                          s = DSJE_NOERROR, s)
                ELSE Call("DSSetJobLimit", << "DSJ_LIMITROWS", opt.rowLimit >>,
                          s = DSJE_NOERROR, s))
         /\ status' = s
         /\ err' = IF s = DSJE_NOERROR THEN err
                   ELSE Append(err, Line(IF pc = "setWarn" THEN "Error setting warning limit"
                                         ELSE "Error setting row limit", 0))
         /\ pc' = IF pc = "setWarn" THEN AfterWarn(s) ELSE ParamLoop(s, 0)
    /\ UNCHANGED << mainVars, cmd, opt, i, event, message, nread, paramInfo,
                    projOpen, jobOpen, jobLocked, out >>

\* a setParam that submits the value whatever the type query returned
GetParamInfo_SetAnyway ==
    /\ pc = "getParamInfo"
    /\ LET name == ParamName(opt.param[i + 1])
       IN  \E s \in EngineStatus, t \in DeclaredTypesOf(name) \cup {"DSJ_PARAMTYPE_OTHER"} :
             /\ (s # DSJE_NOERROR) => t = "DSJ_PARAMTYPE_OTHER"
             /\ (s = DSJE_NOERROR) => t \in DeclaredTypesOf(name)
             /\ calls' = Append(calls, Call("DSGetParamInfo", << name >>, s = DSJE_NOERROR, s))
             /\ status' = s
             /\ paramInfo' = t
             /\ err' = IF s = DSJE_NOERROR THEN err
                       ELSE Append(err, Line("Error %d getting information for parameter", s))
    /\ pc' = "setParam"
    /\ UNCHANGED << mainVars, cmd, opt, i, event, message, nread,
                    projOpen, jobOpen, jobLocked, out >>

\* setParam: status = DSGetParamInfo(hJob, param, &paramInfo)
GetParamInfo ==
    /\ pc = "getParamInfo"
    /\ LET name == ParamName(opt.param[i + 1])
       IN  \E s \in EngineStatus, t \in DeclaredTypesOf(name) \cup {"DSJ_PARAMTYPE_OTHER"} :
             /\ (s # DSJE_NOERROR) => t = "DSJ_PARAMTYPE_OTHER"
             /\ (s = DSJE_NOERROR) => t \in DeclaredTypesOf(name)
             /\ calls' = Append(calls, Call("DSGetParamInfo", << name >>, s = DSJE_NOERROR, s))
             /\ status' = s
             /\ IF s = DSJE_NOERROR
                THEN /\ paramInfo' = t
                     /\ pc' = "setParam"
                     /\ UNCHANGED << i, err >>
                ELSE /\ err' = Append(err, Line("Error %d getting information for parameter", s))
                     /\ i' = i + 1
                     /\ pc' = ParamLoop(s, i + 1)
                     /\ UNCHANGED paramInfo
    /\ UNCHANGED << mainVars, cmd, opt, event, message, nread,
                    projOpen, jobOpen, jobLocked, out >>

\* setParam: status = DSSetParam(hJob, param, &paramData); return status
SetParam ==
    /\ pc = "setParam"
    /\ LET name == ParamName(opt.param[i + 1])
           data == ParamData(paramInfo, ParamValue(opt.param[i + 1]))
       IN  \E s \in EngineStatus :
             /\ calls' = Append(calls, Call("DSSetParam", << name, data >>, s = DSJE_NOERROR, s))
             /\ status' = s
             /\ err' = IF s = DSJE_NOERROR THEN err
                       ELSE Append(err, Line("Error setting value of parameter", 0))
             /\ pc' = ParamLoop(s, i + 1)
    /\ i' = i + 1
    /\ UNCHANGED << mainVars, cmd, opt, event, message, nread, paramInfo,
                    projOpen, jobOpen, jobLocked, out >>

\* status = DSRunJob(hJob, mode)
RunJob ==
    /\ pc = "runJob"
    /\ \E s \in EngineStatus :
         /\ calls' = Append(calls, Call("DSRunJob", << opt.mode >>, s = DSJE_NOERROR, s))
         /\ status' = s
         /\ err' = IF s = DSJE_NOERROR THEN err ELSE Append(err, Line("Error running job", 0))
         /\ pc' = AfterRun(s)
    /\ UNCHANGED << mainVars, cmd, opt, i, event, message, nread, paramInfo,
                    projOpen, jobOpen, jobLocked, out >>

\* status = DSWaitForJob(hJob)
WaitJob ==
    /\ pc = "waitJob"
    /\ \E s \in EngineStatus :
         /\ calls' = Append(calls, Call("DSWaitForJob", << >>, s = DSJE_NOERROR, s))
         /\ status' = s
         /\ err' = IF s = DSJE_NOERROR THEN err
                   ELSE Append(err, Line("Error waiting for job", 0))
    /\ out' = Append(out, Line("Waiting for job...", 0))
    /\ pc' = "unlock"
    /\ UNCHANGED << mainVars, cmd, opt, i, event, message, nread, paramInfo,
                    projOpen, jobOpen, jobLocked >>

\* (void) DSUnlockJob(hJob)
Unlock ==
    /\ pc = "unlock"
    /\ \E r \in ReleaseStatus :
         calls' = Append(calls, Call("DSUnlockJob", << >>, r = DSJE_NOERROR, r))
    /\ jobLocked' = FALSE
    /\ pc' = "closeJob"
    /\ UNCHANGED << mainVars, handlerVars, projOpen, jobOpen, ioVars >>

(***************************************************************************)
(* The program.                                                            *)
(***************************************************************************)
Next ==
    \/ MainStart
    \/ GlobalOption
    \/ MainCommand
    \/ ReportError
    \/ Validate
    \/ OpenProject
    \/ OpenJob
    \/ LastError
    \/ OneCall
    \/ ProjectList
    \/ ProjectInfo
    \/ List
    \/ Info
    \/ NewestId
    \/ GetChar
    \/ FindFirst
    \/ PrintEntry
    \/ FindNext
    \/ EndLog
    \/ Lock
    \/ SetLimit
    \/ GetParamInfo
    \/ SetParam
    \/ RunJob
    \/ WaitJob
    \/ Unlock
    \/ CloseJob
    \/ CloseProject
    \/ Return
    \/ MainReport

Spec == Init /\ [][Next]_vars

(***************************************************************************)
(* The invocations of logsum on their own, with the scheduling of the      *)
(* program stated: it is single-threaded and every engine call blocks      *)
(* until it returns, so whenever a step is possible a step is taken.       *)
(***************************************************************************)
\* the argument vectors whose primary command is logsum
LogSumVectors == {v \in ArgVectors : Len(v) >= 2 /\ v[2] \in {"-logsum", "/logsum"}}

LogSumInit == Init /\ argv \in LogSumVectors

\* the steps main and jobLogSum take
LogSumNext ==
    \/ MainStart
    \/ GlobalOption
    \/ MainCommand
    \/ Validate
    \/ OpenProject
    \/ OpenJob
    \/ LastError
    \/ FindFirst
    \/ PrintEntry
    \/ FindNext
    \/ EndLog
    \/ CloseJob
    \/ CloseProject
    \/ Return
    \/ MainReport

\* every step moves the program on: it changes its position
position == << pc, optIdx, i, nread >>

LogSumSpec == LogSumInit /\ [][LogSumNext]_vars /\ WF_position(LogSumNext)

(***************************************************************************)
(* Vocabulary of the properties.                                           *)
(***************************************************************************)
\* the positions in calls of the calls of one of the operations ops
CallsOf(ops) == {k \in 1..Len(calls) : calls[k].op \in ops}

\* ... and of those that succeeded / failed
OkCallsOf(ops) == {k \in CallsOf(ops) : calls[k].ok}

FailedCallsOf(ops) == {k \in CallsOf(ops) : ~calls[k].ok}

\* the handler has returned to main
HandlerReturned == pc \in {"returned", "exit"} /\ cmd # ""

\* the calls main makes itself, around the handler
MainCalls == {"DSSetServerParams", "DSGetLastErrorMsg"}

(***************************************************************************)
(* C1: in every handler and for every combination of engine results, a     *)
(* project or job handle is closed only if its open succeeded, never more  *)
(* often than it was opened, and when the handler has returned (validation *)
(* failure included) every successful open has exactly one close.          *)
(***************************************************************************)
C1_OpensMatchCloses ==
    /\ Cardinality(CallsOf({"DSCloseProject"})) <= Cardinality(OkCallsOf({"DSOpenProject"}))
    /\ Cardinality(CallsOf({"DSCloseJob"})) <= Cardinality(OkCallsOf({"DSOpenJob"}))
    /\ Cardinality(OkCallsOf({"DSOpenProject"})) <= 1
    /\ Cardinality(OkCallsOf({"DSOpenJob"})) <= 1
    /\ HandlerReturned =>
         /\ Cardinality(CallsOf({"DSCloseProject"})) = Cardinality(OkCallsOf({"DSOpenProject"}))
         /\ Cardinality(CallsOf({"DSCloseJob"})) = Cardinality(OkCallsOf({"DSOpenJob"}))
         /\ projOpen = 0
         /\ jobOpen = 0

\* jobRun has returned an engine error from DSRunJob with both handles closed
C1_Witness ==
    /\ HandlerReturned
    /\ cmd = "run"
    /\ FailedCallsOf({"DSRunJob"}) # { }
    /\ CallsOf({"DSCloseJob"}) # { }
    /\ CallsOf({"DSCloseProject"}) # { }

(***************************************************************************)
(* C2: in jobRun a job whose DSLockJob succeeded is unlocked exactly once, *)
(* before DSCloseJob, whatever the limit, parameter, run and wait calls    *)
(* returned; a job whose DSLockJob failed is never unlocked, no limit,     *)
(* parameter, run or wait call is issued on it, and the status of the lock *)
(* is what the handler returns.                                            *)
(***************************************************************************)
LockedOps ==
    {"DSSetJobLimit", "DSGetParamInfo", "DSSetParam", "DSRunJob", "DSWaitForJob"}

C2_UnlockIffLocked ==
    cmd = "run" =>
        /\ Cardinality(CallsOf({"DSUnlockJob"})) <= Cardinality(OkCallsOf({"DSLockJob"}))
        /\ Cardinality(CallsOf({"DSLockJob"})) <= 1
        /\ \A c \in CallsOf({"DSCloseJob"}) :
             OkCallsOf({"DSLockJob"}) # { } =>
                /\ Cardinality(CallsOf({"DSUnlockJob"})) = 1
                /\ \A u \in CallsOf({"DSUnlockJob"}) : u < c
        /\ \A l \in FailedCallsOf({"DSLockJob"}) :
             /\ CallsOf(LockedOps \cup {"DSUnlockJob"}) = { }
             /\ HandlerReturned => result = calls[l].ret

\* DSWaitForJob failed under the lock, and the job was unlocked and closed
C2_Witness ==
    /\ cmd = "run"
    /\ HandlerReturned
    /\ FailedCallsOf({"DSWaitForJob"}) # { }
    /\ CallsOf({"DSUnlockJob"}) # { }

\* DSLockJob failed and jobRun has returned
C2_WitnessLockFailed ==
    /\ cmd = "run"
    /\ HandlerReturned
    /\ FailedCallsOf({"DSLockJob"}) # { }

(***************************************************************************)
(* C3: where a handler opens a project and a job, DSCloseProject is never  *)
(* issued while the job handle is open: every successful DSOpenJob has its *)
(* DSCloseJob before any DSCloseProject.                                   *)
(***************************************************************************)
C3_JobClosedBeforeProject ==
    \A c \in CallsOf({"DSCloseProject"}) :
        /\ \A o \in OkCallsOf({"DSOpenJob"}) :
             o < c => \E j \in CallsOf({"DSCloseJob"}) : o < j /\ j < c
        /\ \A j \in CallsOf({"DSOpenJob", "DSCloseJob"}) : j < c

\* jobLogSum has closed the job and then the project
C3_Witness ==
    /\ cmd = "logsum"
    /\ CallsOf({"DSCloseJob"}) # { }
    /\ CallsOf({"DSCloseProject"}) # { }

(***************************************************************************)
(* C4: if DSOpenProject fails the handler returns the code DSGetLastError  *)
(* gives and makes no other engine call (no DSOpenJob, no operation, no    *)
(* close); if DSOpenJob fails the handler returns the code DSGetLastError  *)
(* gives, makes no call on a job, and closes the project.                  *)
(***************************************************************************)
\* the positions of the calls the handler made (main's own left out)
HandlerCalls == {k \in 1..Len(calls) : calls[k].op \notin MainCalls}

C4_OpenFailure ==
    /\ FailedCallsOf({"DSOpenProject"}) # { } =>
         /\ \A k \in HandlerCalls : calls[k].op \in {"DSOpenProject", "DSGetLastError"}
         /\ Cardinality(HandlerCalls) <= 2
         /\ HandlerReturned =>
              \E e \in CallsOf({"DSGetLastError"}) : result = calls[e].ret
    /\ FailedCallsOf({"DSOpenJob"}) # { } =>
         /\ \A k \in HandlerCalls :
              calls[k].op \in {"DSOpenProject", "DSOpenJob", "DSGetLastError", "DSCloseProject"}
         /\ Cardinality(HandlerCalls) <= 4
         /\ HandlerReturned =>
              /\ \E e \in CallsOf({"DSGetLastError"}) : result = calls[e].ret
              /\ Cardinality(CallsOf({"DSCloseProject"})) = 1

\* jobLStages has returned after its DSOpenJob failed
C4_Witness ==
    /\ cmd = "lstages"
    /\ HandlerReturned
    /\ FailedCallsOf({"DSOpenJob"}) # { }
    /\ CallsOf({"DSCloseProject"}) # { }

\* jobRun has returned after its DSOpenProject failed
C4_WitnessProject ==
    /\ cmd = "run"
    /\ HandlerReturned
    /\ FailedCallsOf({"DSOpenProject"}) # { }

(***************************************************************************)
(* C5: if a query or operation a handler issues returns a non-success      *)
(* status that is not one of the soft cases ("not available" from a list   *)
(* query or a query printed as not available, "no more" from a find call), *)
(* the handler returns a non-success status; in jobinfo, stageinfo and     *)
(* linkinfo a failure of an earlier query shows in the returned status.    *)
(***************************************************************************)
ReleaseOps == {"DSUnlockJob", "DSCloseJob", "DSCloseProject"}

\* the queries whose "not available" the handlers treat as an empty result
SoftQueryKeys ==
    { "DSJ_JOBLIST", "DSJ_STAGELIST", "DSJ_PARAMLIST", "DSJ_LINKLIST", "DSJ_JOBCONTROLLER",
      "DSJ_JOBSTARTTIMESTAMP", "DSJ_USERSTATUS", "DSJ_STAGELASTERR", "DSJ_LINKLASTERR" }

\* call number k is a soft case
IsSoft(k) ==
    \/ /\ calls[k].ret = DSJE_NOT_AVAILABLE
       /\ calls[k].op \in {"DSGetProjectInfo", "DSGetJobInfo", "DSGetStageInfo", "DSGetLinkInfo"}
       /\ calls[k].args[Len(calls[k].args)] \in SoftQueryKeys
    \/ /\ calls[k].ret = DSJE_NOMORE
       /\ calls[k].op \in {"DSFindFirstLogEntry", "DSFindNextLogEntry"}

\* the queries and operations that returned a failure that is not soft
HardFailures ==
    {k \in HandlerCalls :
        /\ calls[k].op \notin ReleaseOps \cup {"DSGetLastError"}
        /\ ~calls[k].ok
        /\ ~IsSoft(k)}

C5_FailurePropagated ==
    (HandlerReturned /\ HardFailures # { }) => result # DSJE_NOERROR

\* the same for the handlers that issue one query or stop at the first failure
C5_FailurePropagatedElsewhere ==
    (HandlerReturned /\ HardFailures # { } /\ cmd \notin {"jobinfo", "stageinfo", "linkinfo"})
        => result # DSJE_NOERROR

(***************************************************************************)
(* C6: the exit status is DSJE_DSJOB_ERROR (-9999) whenever argument       *)
(* validation failed, in main or in a handler; otherwise it is the status  *)
(* the handler returned, unchanged: 0 when the command succeeded, and else *)
(* a status an engine call gave.                                           *)
(***************************************************************************)
StartsWith(s, p) == Len(s) >= Len(p) /\ SubSeq(s, 1, Len(p)) = p

\* main or a handler rejected the arguments: a usage text was printed
ValidationFailed ==
    \E k \in 1..Len(err) :
        \/ err[k].text = "Command syntax:"
        \/ StartsWith(err[k].text, "Invalid arguments:")

C6_ExitStatus ==
    pc = "exit" =>
        /\ ValidationFailed => result = DSJE_DSJOB_ERROR
        /\ ~ValidationFailed =>
             /\ result = status
             /\ result # DSJE_DSJOB_ERROR
             /\ result # DSJE_NOERROR =>
                  \E k \in HandlerCalls :
                      /\ calls[k].ret = result
                      /\ calls[k].op \notin ReleaseOps \cup {"DSGetNewestLogId"}
                      /\ ~calls[k].ok \/ calls[k].op = "DSGetLastError"

\* the program exits with the status DSStopJob returned
C6_Witness ==
    /\ pc = "exit"
    /\ cmd = "stop"
    /\ result = DSJE_BADHANDLE
    /\ \E k \in CallsOf({"DSStopJob"}) : calls[k].ret = result

\* the program exits with the sentinel after jobRun rejected its arguments
C6_WitnessSentinel ==
    /\ pc = "exit"
    /\ cmd = "run"
    /\ result = DSJE_DSJOB_ERROR

(***************************************************************************)
(* jobLogSum's cursor.                                                     *)
(***************************************************************************)
FindOps == {"DSFindFirstLogEntry", "DSFindNextLogEntry"}

\* the find calls made so far, in order
RECURSIVE FindCallsFrom(_)
FindCallsFrom(k) ==
    IF k > Len(calls) THEN << >>
    ELSE IF calls[k].op \in FindOps THEN << calls[k] >> \o FindCallsFrom(k + 1)
    ELSE FindCallsFrom(k + 1)

FindCalls == FindCallsFrom(1)

\* the entry a find call filled in
EventOf(c) == c.args[Len(c.args)]

\* the line PrintEntry writes for an entry
EntryLine(e) == Line(LogTypeLabel(e.type), e.eventId)

\* jobLogSum reported an error of its cursor
LogSumErrors == {k \in 1..Len(err) : err[k].text = "Error %d getting log summary"}

\* the engine's log held N >= 1 entries: N successful finds, then "no more"
LogHeldEntries ==
    LET f == FindCalls
    IN  /\ Len(f) >= 2
        /\ \A k \in 1..(Len(f) - 1) : f[k].ok
        /\ f[Len(f)].ret = DSJE_NOMORE

(***************************************************************************)
(* C7: in logsum, when find-first and the next N-1 find-next calls succeed *)
(* and the following find-next returns DSJE_NOMORE, exactly the N entries  *)
(* the engine returned are printed, in that order, no error is reported    *)
(* and the command returns success.                                        *)
(***************************************************************************)
C7_EntriesPrintedInOrder ==
    (cmd = "logsum" /\ HandlerReturned /\ LogHeldEntries) =>
        LET f == FindCalls
        IN  /\ out = [k \in 1..(Len(f) - 1) |-> EntryLine(EventOf(f[k]))]
            /\ LogSumErrors = { }
            /\ result = DSJE_NOERROR
            /\ \A k \in 1..Len(err) : err[k].text # "Status code ="

\* two entries with different ids were yielded and logsum has returned
C7_Witness ==
    /\ cmd = "logsum"
    /\ pc = "exit"
    /\ LogHeldEntries
    /\ Len(FindCalls) = 3
    /\ EventOf(FindCalls[1]).eventId = 2
    /\ EventOf(FindCalls[2]).eventId = 1

(***************************************************************************)
(* C8, as claimed: in logsum, when the first find-first returns            *)
(* DSJE_NOMORE or DSJE_NOT_AVAILABLE, nothing is printed, no error is      *)
(* reported and the command returns success.                               *)
(***************************************************************************)
C8_NoDataIsSuccess_Claimed ==
    (cmd = "logsum" /\ HandlerReturned /\ Len(FindCalls) >= 1
        /\ FindCalls[1].ret \in {DSJE_NOMORE, DSJE_NOT_AVAILABLE}) =>
        /\ out = << >>
        /\ LogSumErrors = { }
        /\ result = DSJE_NOERROR

(***************************************************************************)
(* C8, amended: in logsum, when the first find-first returns DSJE_NOMORE,  *)
(* nothing is printed, no error is reported and the command returns        *)
(* success; DSJE_NOT_AVAILABLE from find-first is reported as an error and *)
(* is the command's result.                                                *)
(***************************************************************************)
C8_NoMoreIsSuccess ==
    (cmd = "logsum" /\ HandlerReturned /\ Len(FindCalls) >= 1) =>
        /\ FindCalls[1].ret = DSJE_NOMORE =>
             /\ out = << >>
             /\ LogSumErrors = { }
             /\ result = DSJE_NOERROR
             /\ Len(FindCalls) = 1
        /\ FindCalls[1].ret = DSJE_NOT_AVAILABLE =>
             /\ out = << >>
             /\ LogSumErrors # { }
             /\ result = DSJE_NOT_AVAILABLE

\* find-first returned DSJE_NOMORE and logsum has exited
C8_Witness ==
    /\ cmd = "logsum"
    /\ pc = "exit"
    /\ Len(FindCalls) = 1
    /\ FindCalls[1].ret = DSJE_NOMORE

(***************************************************************************)
(* C9: in logsum, a find-first or find-next that returns a non-success     *)
(* status other than DSJE_NOMORE ends the cursor in failure: no find call  *)
(* follows it, the error is reported with that status, the status is the   *)
(* command's result, and the job and the project are closed.               *)
(***************************************************************************)
C9_FindFailure ==
    cmd = "logsum" =>
        \A k \in 1..Len(FindCalls) :
            FindCalls[k].ret \notin {DSJE_NOERROR, DSJE_NOMORE} =>
                /\ k = Len(FindCalls)
                /\ HandlerReturned =>
                     /\ \E e \in LogSumErrors : err[e].n = FindCalls[k].ret
                     /\ result = FindCalls[k].ret
                     /\ Cardinality(CallsOf({"DSCloseJob"})) = 1
                     /\ Cardinality(CallsOf({"DSCloseProject"})) = 1

\* a find-next failed after one entry and logsum has returned
C9_Witness ==
    /\ cmd = "logsum"
    /\ HandlerReturned
    /\ Len(FindCalls) = 2
    /\ FindCalls[2].ret = DSJE_BADHANDLE

(***************************************************************************)
(* C10: in logsum find-first is called at most once, exactly once when the *)
(* job was opened, and it is the first find call; a find-next is issued    *)
(* only right after a find call that returned success and only once the    *)
(* entry that call yielded is printed; after a find call that returned     *)
(* non-success no find call is made.                                       *)
(***************************************************************************)
C10_CursorState ==
    cmd = "logsum" =>
        LET f == FindCalls
        IN  /\ \A k \in 1..Len(f) : (f[k].op = "DSFindFirstLogEntry") <=> (k = 1)
            /\ \A k \in 2..Len(f) : f[k - 1].ok
            /\ (HandlerReturned /\ OkCallsOf({"DSOpenJob"}) # { }) => Len(f) >= 1

\* a step that issues a find call
IssuesFind(op) ==
    /\ Len(calls') = Len(calls) + 1
    /\ calls'[Len(calls')].op = op

C10_CursorStep ==
    /\ IssuesFind("DSFindNextLogEntry") =>
         /\ Len(FindCalls) >= 1
         /\ FindCalls[Len(FindCalls)].ok
         /\ Len(out) = Yielded
         /\ out[Len(out)] = EntryLine(event)
    /\ IssuesFind("DSFindFirstLogEntry") => FindCalls = << >>

C10_CursorProtocol == [](C10_CursorState) /\ [][C10_CursorStep]_vars

\* a second find-next was issued
C10_Witness ==
    /\ cmd = "logsum"
    /\ Len(FindCalls) = 3
    /\ FindCalls[3].op = "DSFindNextLogEntry"

(***************************************************************************)
(* C11: every logsum invocation terminates with the job and the project    *)
(* released, given that every engine call returns (LiveSpec) and that the  *)
(* find calls eventually return a non-success status (the engine's log is  *)
(* finite: FindResults); and no find call follows one that returned the    *)
(* sentinel or an error.                                                   *)
(***************************************************************************)
\* the program has exited with no handle held
ExitedReleased ==
    /\ pc = "exit"
    /\ projOpen = 0
    /\ jobOpen = 0
    /\ Cardinality(CallsOf({"DSCloseProject"})) = Cardinality(OkCallsOf({"DSOpenProject"}))
    /\ Cardinality(CallsOf({"DSCloseJob"})) = Cardinality(OkCallsOf({"DSOpenJob"}))

\* no find call follows a find call that returned non-success
NoFindAfterFailure ==
    \A k \in 1..Len(FindCalls) : ~FindCalls[k].ok => k = Len(FindCalls)

C11_LogSumTerminates ==
    /\ (cmd = "logsum") ~> ExitedReleased
    /\ [](cmd = "logsum" => NoFindAfterFailure)

\* logsum has exited after the engine yielded every entry of its log and
\* then an error, with both handles closed
C11_Witness ==
    /\ cmd = "logsum"
    /\ ExitedReleased
    /\ Len(FindCalls) = MaxLogEntries + 1
    /\ FindCalls[Len(FindCalls)].ret = DSJE_NOT_AVAILABLE
    /\ CallsOf({"DSCloseJob"}) # { }

(***************************************************************************)
(* The command line as the usage text describes it.                        *)
(***************************************************************************)
\* element number j of a set of numbers, in increasing order
NthOf(S, j) == CHOOSE x \in S : Cardinality({y \in S : y < x}) = j - 1

\* v begins (after the program name) with the global options numbered S, in
\* the order of GlobalOptions: the names stand at every second token
LeadsWith(v, S) ==
    /\ Len(v) >= 2 * Cardinality(S)
    /\ \A j \in 1..Cardinality(S) : v[2 * j] = GlobalOptions[NthOf(S, j)]

\* tok is the option-prefix character followed by a registered name
IsCommandToken(tok) ==
    /\ Len(tok) >= 1
    /\ SubSeq(tok, 1, 1) \in {"-", "/"}
    /\ \E k \in 1..N_MAJOR_OPTIONS : SubSeq(tok, 2, Len(tok)) = MajorOption[k]

\* v is some of the global options in their order, each with a value, and
\* then a registered sub-command
WellFormedCommandLine(v, S) ==
    /\ LeadsWith(v, S)
    /\ Len(v) >= 2 * Cardinality(S) + 2
    /\ IsCommandToken(v[2 * Cardinality(S) + 2])

\* the value v gives global option number k, when v leads with S
GivenValue(v, S, k) ==
    IF k \in S THEN v[2 * (Cardinality({y \in S : y < k}) + 1) + 1] ELSE "NULL"

\* the usage text and the names of all the commands were printed, last
UsagePrinted ==
    /\ Len(err) >= N_MAJOR_OPTIONS + 1
    /\ err[Len(err) - N_MAJOR_OPTIONS].text = "Command syntax:"
    /\ \A k \in 1..N_MAJOR_OPTIONS :
         err[Len(err) - N_MAJOR_OPTIONS + k].text = "-" \o MajorOption[k]

(***************************************************************************)
(* C12: a command line is accepted, and its handler invoked with the       *)
(* connection values it gives, exactly when it is a subset of -domain,     *)
(* -server, -user, -password in that order, each followed by one value     *)
(* token, and then a registered sub-command; any other command line, an    *)
(* out-of-order one included, ends with the usage text and the sentinel    *)
(* and no handler is invoked.                                              *)
(***************************************************************************)
C12_GlobalOptionOrder ==
    /\ \A S \in SUBSET (1..Len(GlobalOptions)) :
         (WellFormedCommandLine(argv, S) /\ pc \notin {"main", "options", "command"}) =>
            /\ cmd = SubSeq(argv[2 * Cardinality(S) + 2], 2, Len(argv[2 * Cardinality(S) + 2]))
            /\ conn = [ domain |-> GivenValue(argv, S, 1), server |-> GivenValue(argv, S, 2),
                        user |-> GivenValue(argv, S, 3), password |-> GivenValue(argv, S, 4) ]
            /\ argPos = 2 * Cardinality(S) + 1
            /\ pc # "reportError"
            /\ ~UsagePrinted
    /\ (pc = "exit" /\ ~\E S \in SUBSET (1..Len(GlobalOptions)) : WellFormedCommandLine(argv, S)) =>
            /\ cmd = ""
            /\ UsagePrinted
            /\ result = DSJE_DSJOB_ERROR
            /\ HandlerCalls = { }

\* "-domain d -server host -run p j" ran its handler to the end
C12_Witness ==
    /\ argv = << "dsjob", "-domain", "d", "-server", "host", "-run", "p", "j" >>
    /\ pc = "exit"
    /\ cmd = "run"
    /\ CallsOf({"DSRunJob"}) # { }

\* "-server host -domain d -run p j" was rejected
C12_WitnessOutOfOrder ==
    /\ argv = << "dsjob", "-server", "host", "-domain", "d", "-run", "p", "j" >>
    /\ pc = "exit"
    /\ result = DSJE_DSJOB_ERROR

(***************************************************************************)
(* C13: when no argument is given, when a global option lacks its value or *)
(* the sub-command token after it, when the token after the global options *)
(* does not start with the option-prefix character, or when its remainder  *)
(* is no registered command name, main returns DSJE_DSJOB_ERROR after it   *)
(* printed the usage text and the names of all the commands; the           *)
(* connection is not set up and no handler is invoked.                     *)
(***************************************************************************)
\* v leads with the global options S and with no further one
LeadsWithExactly(v, S) ==
    /\ LeadsWith(v, S)
    /\ Len(v) >= 2 * Cardinality(S) + 2 =>
         ~\E k \in 1..Len(GlobalOptions) :
             /\ \A y \in S : y < k
             /\ v[2 * Cardinality(S) + 2] = GlobalOptions[k]

NoArgument(v) == Len(v) < 2

\* the last of the global options has no value, or no token after its value
LacksValueOrCommand(v) ==
    \E S \in SUBSET (1..Len(GlobalOptions)) :
        S # { } /\ LeadsWith(v, S) /\ Len(v) < 2 * Cardinality(S) + 2

\* the token after the global options has no option-prefix character
LacksPrefix(v) ==
    \E S \in SUBSET (1..Len(GlobalOptions)) :
        /\ LeadsWithExactly(v, S)
        /\ Len(v) >= 2 * Cardinality(S) + 2
        /\ LET tok == v[2 * Cardinality(S) + 2]
           IN  Len(tok) = 0 \/ SubSeq(tok, 1, 1) \notin {"-", "/"}

\* the token after the global options names no registered command
UnknownCommand(v) ==
    \E S \in SUBSET (1..Len(GlobalOptions)) :
        /\ LeadsWithExactly(v, S)
        /\ Len(v) >= 2 * Cardinality(S) + 2
        /\ LET tok == v[2 * Cardinality(S) + 2]
           IN  /\ Len(tok) >= 1
               /\ SubSeq(tok, 1, 1) \in {"-", "/"}
               /\ ~IsCommandToken(tok)

C13_DispatcherRejects ==
    (pc = "exit" /\ (NoArgument(argv) \/ LacksValueOrCommand(argv)
                        \/ LacksPrefix(argv) \/ UnknownCommand(argv))) =>
        /\ result = DSJE_DSJOB_ERROR
        /\ UsagePrinted
        /\ UnknownCommand(argv) => err[1].text = "Invalid/unknown primary command switch."
        /\ CallsOf({"DSSetServerParams"}) = { }
        /\ calls = << >>
        /\ cmd = ""
        /\ opt = NoOpt

\* "-runx p j" was rejected: its remainder only begins with a command name
C13_Witness ==
    /\ argv = << "dsjob", "-runx", "p", "j" >>
    /\ pc = "exit"
    /\ result = DSJE_DSJOB_ERROR

\* a global option without the sub-command after its value was rejected
C13_WitnessLacksCommand ==
    /\ argv = << "dsjob", "-domain", "d" >>
    /\ pc = "exit"
    /\ UsagePrinted

\* a sub-command without the prefix character was rejected
C13_WitnessLacksPrefix ==
    /\ argv = << "dsjob", "-user", "u", "-password", "pw", "stop", "p", "j" >>
    /\ pc = "exit"
    /\ UsagePrinted

\* no argument at all
C13_WitnessNoArgument ==
    /\ argv = << "dsjob" >>
    /\ pc = "exit"
    /\ UsagePrinted

(***************************************************************************)
(* C14: when the sub-command token names a registered command,             *)
(* DSSetServerParams is called exactly once, with the domain, user,        *)
(* password and server the command line gives, before anything the handler *)
(* does, and the connection values do not change afterwards; the handler   *)
(* is entered exactly once, with the tokens that follow the sub-command    *)
(* token; and once the handler has returned DSGetLastErrorMsg is called    *)
(* exactly once, whatever the handler returned.                            *)
(***************************************************************************)
\* the tokens the handler is given, as a sequence
HandlerArgs == [k \in 1..HArgc |-> HArgv(k - 1)]

C14_DispatchState ==
    /\ cmd = "" => calls = << >>
    /\ cmd # "" =>
         /\ Cardinality(CallsOf({"DSSetServerParams"})) = 1
         /\ calls[1].op = "DSSetServerParams"
         /\ \E S \in SUBSET (1..Len(GlobalOptions)) :
              /\ WellFormedCommandLine(argv, S)
              /\ calls[1].args = << GivenValue(argv, S, 1), GivenValue(argv, S, 3),
                                    GivenValue(argv, S, 4), GivenValue(argv, S, 2) >>
              /\ HandlerArgs = SubSeq(argv, 2 * Cardinality(S) + 3, Len(argv))
         /\ SubSeq(Argv(argPos), 2, Len(Argv(argPos))) = cmd
         /\ Cardinality(CallsOf({"DSGetLastErrorMsg"})) <= 1
         /\ pc # "exit" => CallsOf({"DSGetLastErrorMsg"}) = { }
         /\ pc = "exit" =>
              /\ Cardinality(CallsOf({"DSGetLastErrorMsg"})) = 1
              /\ calls[Len(calls)].op = "DSGetLastErrorMsg"

C14_DispatchStep ==
    /\ pc' = "validate" => (pc = "command" /\ cmd = "" /\ cmd' # "")
    /\ cmd # "" => (cmd' = cmd /\ argc' = argc /\ argPos' = argPos)
    /\ calls # << >> => conn' = conn
    /\ (pc = "returned") =>
         (pc' = "exit" /\ Len(calls') = Len(calls) + 1
            /\ calls'[Len(calls')].op = "DSGetLastErrorMsg")

C14_Dispatch == [](C14_DispatchState) /\ [][C14_DispatchStep]_vars

\* jobStop rejected its arguments and main asked for the last error message
C14_Witness ==
    /\ argv = << "dsjob", "-stop", "p" >>
    /\ pc = "exit"
    /\ result = DSJE_DSJOB_ERROR
    /\ calls = << Call("DSSetServerParams", << "NULL", "NULL", "NULL", "NULL" >>, TRUE, 0),
                  Call("DSGetLastErrorMsg", << >>, FALSE, 0) >>

\* ... and after a handler that succeeded, with all four connection values
C14_WitnessSuccess ==
    /\ pc = "exit"
    /\ cmd = "stop"
    /\ result = DSJE_NOERROR
    /\ calls[1].args = << "d", "u", "pw", "host" >>
    /\ calls[Len(calls)].op = "DSGetLastErrorMsg"

\* ... and after a handler that returned an engine error
C14_WitnessEngineError ==
    /\ pc = "exit"
    /\ cmd = "ljobs"
    /\ result = DSJE_BADHANDLE
    /\ calls[Len(calls)].op = "DSGetLastErrorMsg"

(***************************************************************************)
(* Where a validation failure is determined: main has reached reportError, *)
(* or the handler has printed its usage and returned.                      *)
(***************************************************************************)
RejectedByMain == pc = "reportError" \/ (pc = "exit" /\ cmd = "")

RejectedByHandler ==
    /\ pc = "returned"
    /\ \E k \in 1..Len(err) : StartsWith(err[k].text, "Invalid arguments:")

(***************************************************************************)
(* C15, as claimed: in every invocation that ends with DSJE_DSJOB_ERROR    *)
(* because main or a handler rejected the command line, no engine API call *)
(* of any kind has been issued when the failure is determined.             *)
(***************************************************************************)
C15_NoCallBeforeRejection_Claimed ==
    (RejectedByMain \/ RejectedByHandler) => calls = << >>

(***************************************************************************)
(* C15, amended: when main rejects the command line no engine API call has *)
(* been issued; when a handler rejects its arguments the one call issued   *)
(* is main's DSSetServerParams, which sets up the connection values before *)
(* the handler is entered, and the handler itself has made no call: no     *)
(* project or job was opened and no operation issued.  In both cases the   *)
(* result is DSJE_DSJOB_ERROR.                                             *)
(***************************************************************************)
C15_NoHandlerCallBeforeRejection ==
    /\ RejectedByMain => calls = << >>
    /\ RejectedByHandler =>
         /\ Len(calls) = 1
         /\ calls[1].op = "DSSetServerParams"
         /\ HandlerCalls = { }
         /\ result = DSJE_DSJOB_ERROR
    /\ (pc = "exit" /\ ValidationFailed) =>
         /\ result = DSJE_DSJOB_ERROR
         /\ HandlerCalls = { }
         /\ projOpen = 0 /\ jobOpen = 0

\* jobRun has just rejected "-mode BOGUS"
C15_Witness ==
    /\ argv = << "dsjob", "-run", "-mode", "BOGUS", "p", "j" >>
    /\ RejectedByHandler
    /\ result = DSJE_DSJOB_ERROR
    /\ Len(calls) = 1

\* main is about to report an unknown command
C15_WitnessMain ==
    /\ argv = << "dsjob", "-bogus", "p" >>
    /\ pc = "reportError"

(***************************************************************************)
(* The arguments of a sub-command as its usage text describes them: flags  *)
(* first, each with its value where it takes one, then the positionals.    *)
(***************************************************************************)
\* tok begins with an option-prefix character
LooksLikeFlag(tok) == Len(tok) >= 1 /\ SubSeq(tok, 1, 1) \in {"-", "/"}

ContainsEquals(tok) == \E j \in 1..Len(tok) : SubSeq(tok, j, j) = "="

\* the flags of handler h that stand alone, and those that take a value
SwitchFlags(h) ==
    CASE h = "run" -> {"wait"}
      [] h = "log" -> {"info", "warn"}
      [] OTHER -> { }

ValueFlags(h) ==
    CASE h = "run" -> {"mode", "param", "warn", "rows"}
      [] h = "logsum" -> {"type", "max"}
      [] OTHER -> { }

\* value v is one the value-flag name of handler h accepts
AcceptsValue(h, name, v) ==
    CASE name = "mode" -> v \in {"NORMAL", "RESET", "VALIDATE"}
      [] name = "param" -> ContainsEquals(v)
      [] name = "type" ->
            v \in {"INFO", "WARNING", "FATAL", "REJECT", "STARTED", "RESET", "BATCH", "OTHER"}
      [] OTHER -> TRUE

\* a is recognized flags of h, each value-flag with a value it accepts,
\* followed by exactly two positional tokens
RECURSIVE WellFormedFlags(_, _)
WellFormedFlags(h, a) ==
    IF a # << >> /\ LooksLikeFlag(a[1])
    THEN LET name == SubSeq(a[1], 2, Len(a[1]))
         IN  IF name \in SwitchFlags(h) THEN WellFormedFlags(h, Tail(a))
             ELSE /\ name \in ValueFlags(h)
                  /\ Len(a) >= 2
                  /\ AcceptsValue(h, name, a[2])
                  /\ WellFormedFlags(h, SubSeq(a, 3, Len(a)))
    ELSE Len(a) = 2

\* the number of positional tokens of the sub-commands without flags
FixedCount(h) ==
    CASE h = "lprojects" -> 0
      [] h = "ljobs" -> 1
      [] h \in {"stop", "lstages", "jobinfo", "lparams"} -> 2
      [] h \in {"llinks", "stageinfo", "paraminfo", "logdetail"} -> 3
      [] h = "linkinfo" -> 4

WellFormedArgs(h, a) ==
    CASE h \in {"run", "log", "logsum"} -> WellFormedFlags(h, a)
      [] h = "lognewest" ->
            \/ Len(a) = 2
            \/ Len(a) = 3 /\ AcceptsValue(h, "type", a[3])
      [] OTHER -> Len(a) = FixedCount(h)

\* the handler has validated its arguments
Validated == cmd # "" /\ pc # "validate"

(***************************************************************************)
(* C16: in run, log, logsum and in the sub-commands with positionals only, *)
(* an unrecognized flag, a value-flag without a value, a value -mode or    *)
(* -type does not accept, or a number of positional tokens other than the  *)
(* command's makes the handler print its usage and return                  *)
(* DSJE_DSJOB_ERROR, and no project or job is opened.                      *)
(***************************************************************************)
C16_HandlerRejects ==
    (Validated /\ ~WellFormedArgs(cmd, HandlerArgs)) =>
        /\ \E k \in 1..Len(err) :
             err[k].text = "Invalid arguments: dsjob -" \o UsageName(cmd)
        /\ result = DSJE_DSJOB_ERROR
        /\ pc \in {"returned", "exit"}
        /\ CallsOf({"DSOpenProject", "DSOpenJob"}) = { }
        /\ HandlerCalls = { }
        /\ projOpen = 0 /\ jobOpen = 0

\* and arguments that are well formed are not rejected
C16_WellFormedAccepted ==
    (Validated /\ WellFormedArgs(cmd, HandlerArgs)) => (~opt.badOptions /\ ~ValidationFailed)

\* jobLogSum has rejected a value of -type it does not know
C16_Witness ==
    /\ argv = << "dsjob", "-logsum", "-type", "bogus", "p", "j" >>
    /\ pc = "exit"
    /\ result = DSJE_DSJOB_ERROR

\* jobRun has rejected a third positional token
C16_WitnessCount ==
    /\ argv = << "dsjob", "-run", "p", "j", "x" >>
    /\ pc = "exit"
    /\ result = DSJE_DSJOB_ERROR

\* jobRun has rejected a value-flag without a value
C16_WitnessNoValue ==
    /\ argv = << "dsjob", "-run", "-warn" >>
    /\ pc = "exit"
    /\ result = DSJE_DSJOB_ERROR

\* jobLog has rejected a flag it does not know
C16_WitnessUnknownFlag ==
    /\ argv = << "dsjob", "-log", "-fatal", "p", "j" >>
    /\ pc = "exit"
    /\ result = DSJE_DSJOB_ERROR

\* jobJobInfo has rejected a third positional token
C16_WitnessPositional ==
    /\ argv = << "dsjob", "-jobinfo", "p", "j", "x" >>
    /\ pc = "exit"
    /\ result = DSJE_DSJOB_ERROR

(***************************************************************************)
(* The value a flag is given on the command line.                          *)
(***************************************************************************)
\* the value tokens of the value-flag name among the flags of a, in order
RECURSIVE FlagValues(_, _, _)
FlagValues(h, a, name) ==
    IF a # << >> /\ LooksLikeFlag(a[1])
    THEN LET n == SubSeq(a[1], 2, Len(a[1]))
         IN  IF n \in SwitchFlags(h) THEN FlagValues(h, Tail(a), name)
             ELSE IF Len(a) < 2 THEN << >>
             ELSE (IF n = name THEN << a[2] >> ELSE << >>)
                      \o FlagValues(h, SubSeq(a, 3, Len(a)), name)
    ELSE << >>

\* jobRun holds the lock and has gone on from the point where it sets the
\* warning limit: a call follows its DSLockJob
PastWarningLimit ==
    \E l \in OkCallsOf({"DSLockJob"}) : l < Len(calls)

\* the DSSetJobLimit calls for the warning limit
WarnLimitCalls ==
    {k \in CallsOf({"DSSetJobLimit"}) : calls[k].args[1] = "DSJ_LIMITWARN"}

(***************************************************************************)
(* C17, as claimed: run accepts "-warn -5 <project> <job>", and whatever   *)
(* integer -warn is given is passed to the engine: once the job is locked  *)
(* the call after DSLockJob is DSSetJobLimit for the warning limit with    *)
(* that value, -5 for "-5".                                                *)
(***************************************************************************)
C17_WarnForwarded ==
    (cmd = "run" /\ Validated /\ WellFormedArgs(cmd, HandlerArgs)
        /\ FlagValues(cmd, HandlerArgs, "warn") # << >>) =>
        LET given == FlagValues(cmd, HandlerArgs, "warn")
            tok == given[Len(given)]
        IN  /\ ~ValidationFailed
            /\ PastWarningLimit =>
                 \E l \in OkCallsOf({"DSLockJob"}) :
                    /\ calls[l + 1].op = "DSSetJobLimit"
                    /\ calls[l + 1].args = << "DSJ_LIMITWARN", atoi(tok) >>
                    /\ tok = "-5" => calls[l + 1].args[2] = -5

\* what the code does: "-warn -5" is accepted; a value that is not
\* negative is passed to the engine and a negative one is dropped
C17_WarnForwardedUnlessNegative ==
    (cmd = "run" /\ Validated /\ WellFormedArgs(cmd, HandlerArgs)
        /\ FlagValues(cmd, HandlerArgs, "warn") # << >>) =>
        LET given == FlagValues(cmd, HandlerArgs, "warn")
            tok == given[Len(given)]
        IN  /\ ~ValidationFailed
            /\ opt.warningLimit = atoi(tok)
            /\ (PastWarningLimit /\ atoi(tok) >= 0) =>
                 \E l \in OkCallsOf({"DSLockJob"}) :
                    /\ calls[l + 1].op = "DSSetJobLimit"
                    /\ calls[l + 1].args = << "DSJ_LIMITWARN", atoi(tok) >>
            /\ atoi(tok) < 0 => WarnLimitCalls = { }

\* "-run -warn -5 p j" ran the job without a call for the warning limit
C17_WitnessDropped ==
    /\ argv = << "dsjob", "-run", "-warn", "-5", "p", "j" >>
    /\ pc = "exit"
    /\ opt.warningLimit = -5
    /\ OkCallsOf({"DSRunJob"}) # { }
    /\ WarnLimitCalls = { }

(***************************************************************************)
(* setParam as jobRun calls it.                                            *)
(***************************************************************************)
\* p is text before its first '=', the '=', and raw
SplitsAt(p, name, raw) ==
    /\ p = name \o "=" \o raw
    /\ ~ContainsEquals(name)

\* the text of p after its first '='
RawValue(p) ==
    CHOOSE raw \in {SubSeq(p, j + 1, Len(p)) : j \in 1..Len(p)} :
        \E name \in {SubSeq(p, 1, j - 1) : j \in 1..Len(p)} : SplitsAt(p, name, raw)

\* ... and before it
RawName(p) ==
    CHOOSE name \in {SubSeq(p, 1, j - 1) : j \in 1..Len(p)} :
        \E raw \in {SubSeq(p, j + 1, Len(p)) : j \in 1..Len(p)} : SplitsAt(p, name, raw)

\* the -param tokens of the command line, in its order
GivenParams == FlagValues("run", HandlerArgs, "param")

\* the last call is the DSSetParam of setParam, for parameter number i
JustSetParam ==
    /\ cmd = "run"
    /\ calls # << >>
    /\ calls[Len(calls)].op = "DSSetParam"

\* the declared types whose value is the text as it is
TextTypes ==
    { "DSJ_PARAMTYPE_STRING", "DSJ_PARAMTYPE_ENCRYPTED", "DSJ_PARAMTYPE_PATHNAME",
      "DSJ_PARAMTYPE_LIST", "DSJ_PARAMTYPE_DATE", "DSJ_PARAMTYPE_TIME" }

\* text that does not begin with a digit, a sign or white space: no integer
\* can be read from it
Unparseable(raw) ==
    \/ Len(raw) = 0
    \/ SubSeq(raw, 1, 1) \notin
            {"0", "1", "2", "3", "4", "5", "6", "7", "8", "9", "+", "-", " ", "\t", "\n"}

(***************************************************************************)
(* C18: the value setParam submits is a function of the declared type the  *)
(* engine reported and of the text after the first '=': for the eight      *)
(* known types the tag is the declared type; for String, Encrypted,        *)
(* Pathname, List, Date and Time the payload is that text as it is; for    *)
(* Integer it is the integer the text begins with ("42" gives 42, text     *)
(* that is no number gives 0, and the value is submitted all the same);    *)
(* for any other declared type the value is String-typed with the text as  *)
(* it is.                                                                  *)
(***************************************************************************)
C18_Marshalling ==
    JustSetParam =>
        LET c == calls[Len(calls)]
            data == c.args[2]
            raw == RawValue(GivenParams[i])
        IN  /\ c.args[1] = RawName(GivenParams[i])
            /\ calls[Len(calls) - 1].op = "DSGetParamInfo"
            /\ calls[Len(calls) - 1].ok
            /\ paramInfo \in KnownParamTypes => data.paramType = paramInfo
            /\ paramInfo \in TextTypes => data.str = raw
            /\ paramInfo = "DSJ_PARAMTYPE_INTEGER" =>
                 /\ data.member = "pInt"
                 /\ raw = "42" => data.num = 42
                 /\ raw = "1" => data.num = 1
                 /\ Unparseable(raw) => data.num = 0
            /\ paramInfo \notin KnownParamTypes =>
                 /\ data.paramType = "DSJ_PARAMTYPE_STRING"
                 /\ data.member = "pString"
                 /\ data.str = raw

\* "n=42" was submitted as the integer 42
C18_Witness ==
    /\ JustSetParam
    /\ paramInfo = "DSJ_PARAMTYPE_INTEGER"
    /\ calls[Len(calls)].args[1] = "n"
    /\ calls[Len(calls)].args[2].num = 42

\* "m=abc" was submitted as the integer 0, and accepted
C18_WitnessUnparseable ==
    /\ JustSetParam
    /\ paramInfo = "DSJ_PARAMTYPE_INTEGER"
    /\ calls[Len(calls)].args[1] = "m"
    /\ calls[Len(calls)].args[2].num = 0
    /\ calls[Len(calls)].ok

\* "b=x=y" was submitted as a string for a type code the switch does not know
C18_WitnessOtherType ==
    /\ JustSetParam
    /\ paramInfo = "DSJ_PARAMTYPE_OTHER"
    /\ calls[Len(calls)].args[2].paramType = "DSJ_PARAMTYPE_STRING"
    /\ calls[Len(calls)].args[2].str = "x=y"

(***************************************************************************)
(* C19: setParam queries the declared type before it submits a value: a    *)
(* DSSetParam is always the call right after a successful DSGetParamInfo   *)
(* for the same name; after a DSGetParamInfo that failed no DSSetParam is  *)
(* issued and the status of the query is what setParam returns; after one  *)
(* that succeeded exactly one DSSetParam is issued, and its status is what *)
(* setParam returns.                                                       *)
(***************************************************************************)
C19_QueryThenSet ==
    cmd = "run" =>
        /\ \A k \in CallsOf({"DSSetParam"}) :
             /\ k > 1
             /\ calls[k - 1].op = "DSGetParamInfo"
             /\ calls[k - 1].ok
             /\ calls[k - 1].args[1] = calls[k].args[1]
             /\ k = Len(calls) => status = calls[k].ret
        /\ \A k \in CallsOf({"DSGetParamInfo"}) :
             /\ ~calls[k].ok =>
                  /\ \A m \in CallsOf({"DSSetParam"}) : m < k
                  /\ k = Len(calls) => status = calls[k].ret
             /\ (calls[k].ok /\ k < Len(calls)) => calls[k + 1].op = "DSSetParam"
             /\ (calls[k].ok /\ k + 1 < Len(calls)) => calls[k + 2].op # "DSSetParam"
        /\ Cardinality(CallsOf({"DSSetParam"})) <= Cardinality(OkCallsOf({"DSGetParamInfo"}))

\* the type query of the second parameter failed: one value was submitted
C19_Witness ==
    /\ cmd = "run"
    /\ HandlerReturned
    /\ Cardinality(CallsOf({"DSGetParamInfo"})) = 2
    /\ Cardinality(FailedCallsOf({"DSGetParamInfo"})) = 1
    /\ Cardinality(CallsOf({"DSSetParam"})) = 1
    /\ result = DSJE_NOT_AVAILABLE

(***************************************************************************)
(* C20: jobRun calls setParam at most once for each -param of the command  *)
(* line, in the order of the command line; after the first parameter whose *)
(* type query or submission fails no further parameter is processed, the   *)
(* job is not run, and once the job is unlocked and closed that status is  *)
(* the result of the command.                                              *)
(***************************************************************************)
\* the calls of the operations ops made so far, in order
RECURSIVE CallSeqFrom(_, _)
CallSeqFrom(ops, k) ==
    IF k > Len(calls) THEN << >>
    ELSE IF calls[k].op \in ops THEN << calls[k] >> \o CallSeqFrom(ops, k + 1)
    ELSE CallSeqFrom(ops, k + 1)

\* the calls of setParam, as the type queries it begins with
SetParamCalls == CallSeqFrom({"DSGetParamInfo"}, 1)

C20_ParamsInOrder ==
    (cmd = "run" /\ Validated /\ WellFormedArgs(cmd, HandlerArgs)) =>
        /\ Len(SetParamCalls) <= Len(GivenParams)
        /\ \A j \in 1..Len(SetParamCalls) :
             SetParamCalls[j].args[1] = RawName(GivenParams[j])
        /\ \A k \in FailedCallsOf({"DSGetParamInfo", "DSSetParam"}) :
             /\ \A m \in CallsOf({"DSGetParamInfo", "DSSetParam", "DSRunJob", "DSWaitForJob"}) :
                  m <= k
             /\ HandlerReturned =>
                  /\ result = calls[k].ret
                  /\ \E u \in CallsOf({"DSUnlockJob"}) : \E c \in CallsOf({"DSCloseJob"}) :
                        \E p \in CallsOf({"DSCloseProject"}) : k < u /\ u < c /\ c < p
        /\ CallsOf({"DSRunJob"}) # { } =>
             Cardinality(OkCallsOf({"DSSetParam"})) = Len(GivenParams)

\* the first of two parameters was refused: the second was not looked at,
\* the job was not run, and jobRun has returned the status of the refusal
C20_Witness ==
    /\ argv = << "dsjob", "-run", "-param", "a=1", "-param", "b=x=y", "-wait", "p", "j" >>
    /\ HandlerReturned
    /\ Len(SetParamCalls) = 1
    /\ FailedCallsOf({"DSSetParam"}) # { }
    /\ result = DSJE_BADHANDLE

\* both parameters were set, in the order given, and the job was run
C20_WitnessBoth ==
    /\ cmd = "run"
    /\ HandlerReturned
    /\ Len(SetParamCalls) = 2
    /\ SetParamCalls[1].args[1] = "n"
    /\ SetParamCalls[2].args[1] = "m"
    /\ OkCallsOf({"DSRunJob"}) # { }

(***************************************************************************)
(* The listing commands.                                                   *)
(***************************************************************************)
ListingCommands == {"ljobs", "lstages", "llinks", "lparams"}

\* the list query of a listing command returned "not available"
ListNotAvailable ==
    /\ cmd \in ListingCommands
    /\ \E k \in CallsOf({"DSGetProjectInfo", "DSGetJobInfo", "DSGetStageInfo"}) :
         calls[k].ret = DSJE_NOT_AVAILABLE

\* the empty-list indicator was printed, the command is on its way to
\* return success, and where it has returned no error was reported
EmptyListReported ==
    /\ \E k \in 1..Len(out) : out[k] = Line("<none>", 0)
    /\ status = DSJE_NOERROR
    /\ \A k \in 1..Len(err) : err[k].text = "Last recorded error message ="
    /\ pc = "exit" => result = DSJE_NOERROR

(***************************************************************************)
(* C21, as claimed: in ljobs, lstages, llinks and lparams, when the opens  *)
(* succeed and the list query returns DSJE_NOT_AVAILABLE, the command      *)
(* prints the empty-list indicator and returns success.                    *)
(***************************************************************************)
C21_NotAvailableIsEmptyList ==
    ListNotAvailable => (EmptyListReported /\ pc # "faulted")

\* what the code does: ljobs, lstages and lparams print the indicator and
\* nothing else and return success; llinks does so only where its read of
\* the list that was not filled in happens to find an empty list
C21_NotAvailableIsEmptyListElsewhere ==
    ListNotAvailable =>
        /\ cmd # "llinks" => (EmptyListReported /\ out = << Line("<none>", 0) >>)
        /\ (cmd = "llinks" /\ pc # "faulted") => EmptyListReported

\* llinks has faulted after it printed the indicator, both handles open
C21_WitnessFault ==
    /\ argv = << "dsjob", "-llinks", "p", "j", "s" >>
    /\ pc = "faulted"
    /\ out = << Line("<none>", 0) >>
    /\ projOpen = 1 /\ jobOpen = 1

\* lstages has exited with success after it printed the indicator
C21_WitnessStages ==
    /\ cmd = "lstages"
    /\ pc = "exit"
    /\ ListNotAvailable
    /\ result = DSJE_NOERROR

(***************************************************************************)
(* C22: the status a handler returns does not depend on the statuses of    *)
(* its release calls (DSUnlockJob, DSCloseJob, DSCloseProject).  A step    *)
(* that issues a release call leaves the status and the error output as    *)
(* they were, whatever the call returned, and the handler returns the      *)
(* status it then holds; a release call that failed is still followed by   *)
(* the remaining release calls.                                            *)
(***************************************************************************)
\* the step issues a release call
IssuesRelease ==
    /\ Len(calls') = Len(calls) + 1
    /\ calls'[Len(calls')].op \in ReleaseOps

\* the release call that follows a release call
NextRelease(op) ==
    CASE op = "DSUnlockJob" -> "DSCloseJob"
      [] op = "DSCloseJob" -> "DSCloseProject"

C22_ReleaseState ==
    \A k \in CallsOf({"DSUnlockJob", "DSCloseJob"}) :
        /\ k < Len(calls) => calls[k + 1].op = NextRelease(calls[k].op)
        /\ HandlerReturned => k < Len(calls)

C22_ReleaseStep ==
    /\ IssuesRelease => (status' = status /\ err' = err /\ out' = out)
    /\ (pc = "return" /\ pc' = "returned") => (result' = status /\ status' = status)

C22_ReleaseStatusIgnored == [](C22_ReleaseState) /\ [][C22_ReleaseStep]_vars

\* run succeeded although every one of its three release calls failed
C22_Witness ==
    /\ cmd = "run"
    /\ pc = "exit"
    /\ result = DSJE_NOERROR
    /\ Cardinality(FailedCallsOf(ReleaseOps)) = 3
    /\ FailedCallsOf({"DSOpenProject", "DSOpenJob", "DSLockJob", "DSRunJob"}) = {}

\* run returned the status of its failed DSRunJob, not that of the failed
\* release calls after it
C22_WitnessEarlierFailure ==
    /\ cmd = "run"
    /\ pc = "exit"
    /\ result = DSJE_NOT_AVAILABLE
    /\ \E k \in CallsOf({"DSRunJob"}) : calls[k].ret = DSJE_NOT_AVAILABLE
    /\ \E k \in CallsOf({"DSCloseJob"}) : calls[k].ret = DSJE_BADHANDLE
    /\ Cardinality(FailedCallsOf(ReleaseOps)) = 3

(***************************************************************************)
(* C23: in every reachable state at most one project handle and at most    *)
(* one job handle are open, and a job handle is open only while the        *)
(* project handle it was opened in is open.                                *)
(***************************************************************************)
\* the handles open according to the calls made so far
OpenProjects == Cardinality(OkCallsOf({"DSOpenProject"})) - Cardinality(CallsOf({"DSCloseProject"}))

OpenJobs == Cardinality(OkCallsOf({"DSOpenJob"})) - Cardinality(CallsOf({"DSCloseJob"}))

\* the project handle was open when call k was made
ProjectOpenAt(k) ==
    \E p \in OkCallsOf({"DSOpenProject"}) :
        /\ p < k
        /\ \A c \in CallsOf({"DSCloseProject"}) : c < p \/ k <= c

C23_HandleNesting ==
    /\ projOpen = OpenProjects /\ jobOpen = OpenJobs
    /\ OpenProjects \in {0, 1}
    /\ OpenJobs \in {0, 1}
    /\ OpenJobs = 1 => OpenProjects = 1
    /\ \A k \in CallsOf({"DSOpenJob", "DSCloseJob"}) : ProjectOpenAt(k)

\* log reads its message with the job open in the open project
C23_Witness ==
    /\ cmd = "log"
    /\ nread > 0
    /\ OpenProjects = 1 /\ OpenJobs = 1

\* run has closed the job and still holds the project
C23_WitnessJobClosed ==
    /\ cmd = "run"
    /\ OpenProjects = 1 /\ OpenJobs = 0
    /\ CallsOf({"DSCloseJob"}) # {}

(***************************************************************************)
(* C24: in run, the calls that change the job (DSSetJobLimit, DSSetParam,  *)
(* DSRunJob) and DSWaitForJob are issued only while the job is locked:     *)
(* after a DSLockJob that returned success and before the DSUnlockJob that *)
(* matches it.                                                             *)
(***************************************************************************)
MutatingOps == {"DSSetJobLimit", "DSSetParam", "DSRunJob"}

\* the job was locked when call k was made
LockedAt(k) ==
    /\ \E l \in OkCallsOf({"DSLockJob"}) : l < k
    /\ \A u \in CallsOf({"DSUnlockJob"}) : k < u

C24_MutationsUnderLock ==
    cmd = "run" =>
        /\ \A k \in CallsOf(MutatingOps \cup {"DSWaitForJob"}) : LockedAt(k)
        /\ (calls # << >> /\ calls[Len(calls)].op \in MutatingOps \cup {"DSWaitForJob"})
              => jobLocked

\* run has set a limit and a parameter, started the job and waited for it
\* under the lock, and has then unlocked the job
C24_Witness ==
    /\ cmd = "run"
    /\ CallsOf({"DSSetJobLimit"}) # {}
    /\ CallsOf({"DSSetParam"}) # {}
    /\ CallsOf({"DSRunJob"}) # {}
    /\ CallsOf({"DSWaitForJob"}) # {}
    /\ CallsOf({"DSUnlockJob"}) # {}
    /\ ~jobLocked

(***************************************************************************)
(* C25: in log the collected message never holds more than MAX_MSG_LEN     *)
(* characters and every write into the buffer, the terminator included, is *)
(* within the buffer; the collected text is the first MAX_MSG_LEN (or      *)
(* fewer) printable-or-newline characters standard input holds before its  *)
(* end-of-input signal, in input order, and nothing beyond the cap.        *)
(***************************************************************************)
\* char message[MAX_MSG_LEN + 4]
MessageBufferSize == MAX_MSG_LEN + 4

\* the end-of-input signal: the end of the stream, or Ctrl-d where the
\* build takes it as one
EndsInput(s, k) == k > Len(s) \/ (WIN32 /\ s[k].ch = "^D")

\* the printable-or-newline characters of stream s from run k on, up to
\* the end-of-input signal
RECURSIVE Collectable(_, _)
Collectable(s, k) ==
    IF EndsInput(s, k) THEN ""
    ELSE (IF s[k].ch \in {"a", "\n"} THEN Repeat(s[k].ch, s[k].count) ELSE "")
            \o Collectable(s, k + 1)

\* the first n characters of text t, or all of it
FirstOf(t, n) == IF Len(t) <= n THEN t ELSE SubSeq(t, 1, n)

\* the loop of jobLog has been left
MessageRead == \E k \in 1..Len(out) : out[k] = Line("Message read.", 0)

C25_MessageWithinCap ==
    cmd = "log" =>
        /\ Len(message) <= MAX_MSG_LEN
        /\ \A at \in {Len(message) - 1, Len(message)} : at < MessageBufferSize
        /\ message = FirstOf(FirstOf(Collectable(stdin, 1), MAX_MSG_LEN), Len(message))
        /\ MessageRead => message = FirstOf(Collectable(stdin, 1), MAX_MSG_LEN)
        /\ \A k \in CallsOf({"DSLogEvent"}) :
             calls[k].args[2] = FirstOf(Collectable(stdin, 1), MAX_MSG_LEN)

\* standard input held more than the cap: a letter, MAX_MSG_LEN letters,
\* and the message logged is the first MAX_MSG_LEN of them
C25_Witness ==
    /\ cmd = "log"
    /\ stdin = << [ch |-> "a", count |-> 1], [ch |-> "a", count |-> MAX_MSG_LEN] >>
    /\ CallsOf({"DSLogEvent"}) # {}
    /\ Len(message) = MAX_MSG_LEN

\* the cap was reached exactly, by MAX_MSG_LEN - 1 letters and a newline
C25_WitnessExact ==
    /\ cmd = "log"
    /\ stdin = << [ch |-> "a", count |-> MAX_MSG_LEN - 1], [ch |-> "\n", count |-> 1] >>
    /\ CallsOf({"DSLogEvent"}) # {}
    /\ Len(message) = MAX_MSG_LEN
    /\ SubSeq(message, MAX_MSG_LEN, MAX_MSG_LEN) = "\n"

\* a bell was dropped and Ctrl-d ended the input
C25_WitnessDropped ==
    /\ cmd = "log"
    /\ stdin = << [ch |-> "^G", count |-> 1], [ch |-> "^D", count |-> 1] >>
    /\ CallsOf({"DSLogEvent"}) # {}
    /\ message = ""

(***************************************************************************)
(* C26: a flag that selects a single setting overwrites what an earlier    *)
(* one of its kind selected.  The type filter logsum passes to             *)
(* DSFindFirstLogEntry is that of the last -type given, DSJ_LOGANY with no *)
(* -type, and the maximum that of the last -max; log files its message     *)
(* under the type of the last of -info and -warn; run passes the mode of   *)
(* the last -mode, and the limits of the last -warn and the last -rows.    *)
(***************************************************************************)
\* the switches among the flags of a, in order
RECURSIVE GivenSwitches(_, _)
GivenSwitches(h, a) ==
    IF a # << >> /\ LooksLikeFlag(a[1])
    THEN LET n == SubSeq(a[1], 2, Len(a[1]))
         IN  IF n \in SwitchFlags(h) THEN << n >> \o GivenSwitches(h, Tail(a))
             ELSE GivenSwitches(h, SubSeq(a, 3, Len(a)))
    ELSE << >>

\* the last element of a sequence, or d for the empty sequence
LastOr(seq, d) == IF seq = << >> THEN d ELSE seq[Len(seq)]

\* the last value given to the value-flag name, or d when it is not given
LastGiven(name, d) == LastOr(FlagValues(cmd, HandlerArgs, name), d)

\* the engine's name of a run mode
ModeOf(tok) == "DSJ_RUN" \o tok

\* the engine's name of the type a switch of log selects
LogTypeOf(switch) == IF switch = "warn" THEN "DSJ_LOGWARNING" ELSE "DSJ_LOGINFO"

\* the DSSetJobLimit calls for limit which
LimitCalls(which) == {k \in CallsOf({"DSSetJobLimit"}) : calls[k].args[1] = which}

C26_LastFlagWins ==
    (Validated /\ WellFormedArgs(cmd, HandlerArgs)) =>
        /\ cmd = "logsum" =>
              \A k \in CallsOf({"DSFindFirstLogEntry"}) :
                 /\ calls[k].args[1] =
                        (IF FlagValues(cmd, HandlerArgs, "type") = << >> THEN "DSJ_LOGANY"
                         ELSE "DSJ_LOG" \o LastGiven("type", ""))
                 /\ calls[k].args[4] = atoi(LastGiven("max", "0"))
        /\ cmd = "log" =>
              \A k \in CallsOf({"DSLogEvent"}) :
                 calls[k].args[1] = LogTypeOf(LastOr(GivenSwitches(cmd, HandlerArgs), "info"))
        /\ cmd = "run" =>
              /\ \A k \in CallsOf({"DSRunJob"}) :
                    calls[k].args = << ModeOf(LastGiven("mode", "NORMAL")) >>
              /\ \A k \in LimitCalls("DSJ_LIMITWARN") :
                    calls[k].args[2] = atoi(LastGiven("warn", "-1"))
              /\ \A k \in LimitCalls("DSJ_LIMITROWS") :
                    calls[k].args[2] = atoi(LastGiven("rows", "0"))

\* logsum was given -type INFO and then -type FATAL, and asked for FATAL
C26_Witness ==
    /\ cmd = "logsum"
    /\ FlagValues(cmd, HandlerArgs, "type") = << "INFO", "FATAL" >>
    /\ \E k \in CallsOf({"DSFindFirstLogEntry"}) : calls[k].args[1] = "DSJ_LOGFATAL"

\* ... was given -max 1 and then -max 2, and asked for 2 entries
C26_WitnessMax ==
    /\ cmd = "logsum"
    /\ FlagValues(cmd, HandlerArgs, "max") = << "1", "2" >>
    /\ \E k \in CallsOf({"DSFindFirstLogEntry"}) : calls[k].args[4] = 2

\* ... was given no -type, and asked for any type
C26_WitnessAny ==
    /\ cmd = "logsum"
    /\ FlagValues(cmd, HandlerArgs, "type") = << >>
    /\ \E k \in CallsOf({"DSFindFirstLogEntry"}) : calls[k].args[1] = "DSJ_LOGANY"

\* log was given -info and then -warn, and filed a warning
C26_WitnessLog ==
    /\ cmd = "log"
    /\ GivenSwitches(cmd, HandlerArgs) = << "info", "warn" >>
    /\ \E k \in CallsOf({"DSLogEvent"}) : calls[k].args[1] = "DSJ_LOGWARNING"

\* run was given each of -mode, -warn and -rows twice, and used the second
C26_WitnessRun ==
    /\ cmd = "run"
    /\ FlagValues(cmd, HandlerArgs, "mode") = << "RESET", "VALIDATE" >>
    /\ FlagValues(cmd, HandlerArgs, "warn") = << "3", "1" >>
    /\ FlagValues(cmd, HandlerArgs, "rows") = << "5", "2" >>
    /\ \E k \in CallsOf({"DSRunJob"}) : calls[k].args = << "DSJ_RUNVALIDATE" >>
    /\ \E k \in LimitCalls("DSJ_LIMITWARN") : calls[k].args[2] = 1
    /\ \E k \in LimitCalls("DSJ_LIMITROWS") : calls[k].args[2] = 2

(***************************************************************************)
(* C27: the sub-command is looked up by exact, whole-name match.  The      *)
(* handler invoked is the one entry of the table whose name is the         *)
(* sub-command token without its prefix character; a token that is only a  *)
(* proper prefix or an extension of registered names invokes nothing; at   *)
(* most one handler is invoked; and the order of the table shows only in   *)
(* the order of the names in the usage text.                               *)
(***************************************************************************)
\* main has gone past its global options with a token left
AtSubCommand == pc \notin {"main", "options"} /\ argc >= 1

\* the sub-command token without its first character
SubCommandName == SubSeq(Argv(argPos), 2, Len(Argv(argPos)))

\* the entries of the table with the name n
EntriesNamed(n) == {k \in 1..N_MAJOR_OPTIONS : MajorOption[k] = n}

\* a is a proper prefix of b
ProperPrefix(a, b) == Len(a) < Len(b) /\ SubSeq(b, 1, Len(a)) = a

\* n is close to registered names without being one
NearMiss(n) ==
    /\ EntriesNamed(n) = { }
    /\ \E k \in 1..N_MAJOR_OPTIONS :
         ProperPrefix(n, MajorOption[k]) \/ ProperPrefix(MajorOption[k], n)

C27_LookupState ==
    /\ \A n \in {MajorOption[k] : k \in 1..N_MAJOR_OPTIONS} :
         Cardinality(EntriesNamed(n)) = 1
    /\ cmd # "" =>
         /\ AtSubCommand
         /\ cmd = SubCommandName
         /\ EntriesNamed(cmd) # { }
         /\ Cardinality(CallsOf({"DSSetServerParams"})) = 1
    /\ (AtSubCommand /\ EntriesNamed(SubCommandName) = { }) =>
         /\ cmd = ""
         /\ calls = << >>
         /\ pc = "exit" => (UsagePrinted /\ result = DSJE_DSJOB_ERROR)
    /\ (pc = "exit" /\ cmd = "") =>
         \A k \in 1..N_MAJOR_OPTIONS :
            err[Len(err) - N_MAJOR_OPTIONS + k] = Line("-" \o MajorOption[k], 0)

C27_LookupStep == cmd # "" => cmd' = cmd

C27_ExactLookup == [](C27_LookupState) /\ [][C27_LookupStep]_vars

\* "-logsum" entered jobLogSum, not jobLog whose name it extends
C27_Witness ==
    /\ Argv(argPos) = "-logsum"
    /\ cmd = "logsum"
    /\ ProperPrefix("log", SubCommandName)
    /\ pc = "exit"

\* "-ru", a proper prefix of "run", was rejected with the usage text
C27_WitnessPrefix ==
    /\ AtSubCommand /\ SubCommandName = "ru"
    /\ NearMiss(SubCommandName)
    /\ pc = "exit" /\ cmd = "" /\ UsagePrinted

\* "-runx", an extension of "run", was rejected with the usage text
C27_WitnessExtension ==
    /\ AtSubCommand /\ SubCommandName = "runx"
    /\ NearMiss(SubCommandName)
    /\ pc = "exit" /\ cmd = "" /\ UsagePrinted

(***************************************************************************)
(* C28: the value token of a global option is taken as it stands and is    *)
(* never read as an option name or as a sub-command, even when it starts   *)
(* with the option-prefix character or is itself a flag token.  In         *)
(* "-domain -server -run p j" the domain is "-server", no server is set,   *)
(* and run is entered with the arguments p j.                              *)
(***************************************************************************)
\* the positions of the value tokens of a command line that leads with S
ValuePositions(S) == {2 * j + 1 : j \in 1..Cardinality(S)}

\* some value of the command line reads like a flag
FlagLikeValue(v, S) == \E j \in ValuePositions(S) : LooksLikeFlag(v[j])

C28_ValueTakenAsIs ==
    /\ \A S \in SUBSET (1..Len(GlobalOptions)) :
         (WellFormedCommandLine(argv, S) /\ FlagLikeValue(argv, S)
            /\ pc \notin {"main", "options", "command"}) =>
            /\ conn = [ domain |-> GivenValue(argv, S, 1), server |-> GivenValue(argv, S, 2),
                        user |-> GivenValue(argv, S, 3), password |-> GivenValue(argv, S, 4) ]
            /\ cmd = SubSeq(argv[2 * Cardinality(S) + 2], 2, Len(argv[2 * Cardinality(S) + 2]))
            /\ HandlerArgs = SubSeq(argv, 2 * Cardinality(S) + 3, Len(argv))
            /\ calls # << >>
            /\ calls[1] = Call("DSSetServerParams",
                               << GivenValue(argv, S, 1), GivenValue(argv, S, 3),
                                  GivenValue(argv, S, 4), GivenValue(argv, S, 2) >>, TRUE, 0)
    /\ (argv = << "dsjob", "-domain", "-server", "-run", "p", "j" >>
            /\ pc \notin {"main", "options", "command"}) =>
            /\ conn.domain = "-server"
            /\ conn.server = "NULL"
            /\ cmd = "run"
            /\ HandlerArgs = << "p", "j" >>

\* "-domain -server -run p j" ran the job in project p with the domain
\* "-server" and no server
C28_Witness ==
    /\ argv = << "dsjob", "-domain", "-server", "-run", "p", "j" >>
    /\ pc = "exit"
    /\ calls[1].args = << "-server", "NULL", "NULL", "NULL" >>
    /\ \E k \in OkCallsOf({"DSOpenProject"}) : calls[k].args = << "p" >>
    /\ \E k \in OkCallsOf({"DSRunJob"}) : TRUE

\* "-user -run -run p j": the user is "-run", and run is entered
C28_WitnessCommandAsValue ==
    /\ argv = << "dsjob", "-user", "-run", "-run", "p", "j" >>
    /\ pc = "exit"
    /\ conn.user = "-run"
    /\ cmd = "run"
    /\ HandlerArgs = << "p", "j" >>

(***************************************************************************)
(* C29: "run -wait <project> <job>", with no -warn, -rows or -param,       *)
(* issues no DSSetJobLimit and no setParam call; if the open, lock, run    *)
(* and wait calls all return success the command returns success and       *)
(* reports no error.                                                       *)
(***************************************************************************)
\* run was given -wait, a project and a job, and nothing else
PlainRunWait ==
    /\ cmd = "run"
    /\ Validated
    /\ Len(HandlerArgs) = 3
    /\ HandlerArgs[1] \in {"-wait", "/wait"}
    /\ ~LooksLikeFlag(HandlerArgs[2]) /\ ~LooksLikeFlag(HandlerArgs[3])

\* the calls of the handler, as the names of their operations
HandlerOps == [k \in 1..Cardinality(HandlerCalls) |-> calls[NthOf(HandlerCalls, k)].op]

\* nothing but the engine's trailing message was written to stderr
NoErrorReported == \A k \in 1..Len(err) : err[k].text = "Last recorded error message ="

C29_PlainRunWait ==
    PlainRunWait =>
        /\ ~ValidationFailed
        /\ CallsOf({"DSSetJobLimit", "DSGetParamInfo", "DSSetParam"}) = { }
        /\ (pc = "exit" /\ FailedCallsOf({"DSOpenProject", "DSOpenJob", "DSLockJob",
                                           "DSRunJob", "DSWaitForJob"}) = { }) =>
              /\ result = DSJE_NOERROR
              /\ NoErrorReported
              /\ HandlerOps = << "DSOpenProject", "DSOpenJob", "DSLockJob", "DSRunJob",
                                 "DSWaitForJob", "DSUnlockJob", "DSCloseJob", "DSCloseProject" >>
              /\ \E k \in 1..Len(out) : out[k] = Line("Waiting for job...", 0)

\* "-run -wait p j" has run the job, waited for it and exited with success
C29_Witness ==
    /\ argv = << "dsjob", "-run", "-wait", "p", "j" >>
    /\ PlainRunWait
    /\ pc = "exit"
    /\ result = DSJE_NOERROR
    /\ OkCallsOf({"DSWaitForJob"}) # { }

(***************************************************************************)
(* C30: in run, after a successful lock, the engine calls are issued in    *)
(* the order warning limit, row limit, parameters, run, wait (the limits   *)
(* only when given, the wait only with -wait); a step is issued only if    *)
(* every step before it returned success; DSRunJob and DSWaitForJob are    *)
(* called at most once and no failed call is issued again; and the first   *)
(* failing status is what the handler returns.                             *)
(***************************************************************************)
\* the place of a call in the order of the steps
StepRank(c) ==
    CASE c.op = "DSSetJobLimit" -> IF c.args[1] = "DSJ_LIMITWARN" THEN 1 ELSE 2
      [] c.op \in {"DSGetParamInfo", "DSSetParam"} -> 3
      [] c.op = "DSRunJob" -> 4
      [] c.op = "DSWaitForJob" -> 5

\* the calls jobRun makes on the job it has locked
StepCalls == CallsOf(LockedOps)

\* run was given -wait
WaitGiven ==
    \E k \in 1..Len(GivenSwitches(cmd, HandlerArgs)) :
        GivenSwitches(cmd, HandlerArgs)[k] = "wait"

C30_StepsInOrder ==
    (cmd = "run" /\ Validated) =>
        /\ \A j, k \in StepCalls : j < k =>
              /\ StepRank(calls[j]) <= StepRank(calls[k])
              /\ calls[j].ok
              /\ StepRank(calls[j]) # 3 => StepRank(calls[j]) < StepRank(calls[k])
        /\ \A k \in StepCalls : \E l \in OkCallsOf({"DSLockJob"}) : l < k
        /\ Cardinality(CallsOf({"DSRunJob"})) <= 1
        /\ Cardinality(CallsOf({"DSWaitForJob"})) <= 1
        /\ CallsOf({"DSWaitForJob"}) # { } => WaitGiven
        /\ LimitCalls("DSJ_LIMITWARN") # { } => FlagValues(cmd, HandlerArgs, "warn") # << >>
        /\ LimitCalls("DSJ_LIMITROWS") # { } => FlagValues(cmd, HandlerArgs, "rows") # << >>
        /\ HandlerReturned =>
              /\ \A k \in StepCalls \cup CallsOf({"DSLockJob"}) :
                    ~calls[k].ok => result = calls[k].ret
              /\ (OkCallsOf({"DSLockJob"}) # { } /\ FailedCallsOf(LockedOps) = { }) =>
                    /\ result = DSJE_NOERROR
                    /\ Cardinality(CallsOf({"DSRunJob"})) = 1
                    /\ Cardinality(CallsOf({"DSWaitForJob"})) =
                          (IF WaitGiven THEN 1 ELSE 0)
                    /\ Cardinality(CallsOf({"DSSetParam"})) =
                          Len(FlagValues(cmd, HandlerArgs, "param"))

\* every step was issued, in order, and all succeeded
C30_Witness ==
    /\ cmd = "run"
    /\ pc = "exit"
    /\ result = DSJE_NOERROR
    /\ [k \in 1..Cardinality(StepCalls) |-> StepRank(calls[NthOf(StepCalls, k)])]
          = << 1, 2, 3, 3, 4, 5 >>

\* the warning limit call failed: no other step was issued, and its status
\* is the exit status
C30_WitnessFirstFails ==
    /\ cmd = "run"
    /\ pc = "exit"
    /\ FlagValues(cmd, HandlerArgs, "rows") # << >>
    /\ Cardinality(StepCalls) = 1
    /\ \E k \in LimitCalls("DSJ_LIMITWARN") : calls[k].ret = DSJE_NOT_AVAILABLE
    /\ result = DSJE_NOT_AVAILABLE

(***************************************************************************)
(* C31, as claimed: while jobRun collects its -param values the number     *)
(* stored never exceeds MAX_PARAMS, and no store is made at an index       *)
(* outside 0..MAX_PARAMS-1, for every argument vector.                     *)
(***************************************************************************)
C31_ParamsWithinCapacity ==
    (cmd = "run" /\ Validated) =>
        /\ opt.nParams <= MAX_PARAMS
        /\ ~opt.oobStore
        /\ pc # "faulted"

\* what the code does: every -param with an '=' met before the loop stops
\* is stored at the next index, so the stores stay inside the array exactly
\* when at most MAX_PARAMS of them are given
C31_ParamsWithinCapacityUpToTen ==
    (cmd = "run" /\ Validated /\ WellFormedArgs(cmd, HandlerArgs)) =>
        /\ opt.nParams = Len(FlagValues(cmd, HandlerArgs, "param"))
        /\ opt.oobStore <=> Len(FlagValues(cmd, HandlerArgs, "param")) > MAX_PARAMS
        /\ pc = "faulted" => opt.oobStore

\* run was given MAX_PARAMS + 1 parameters and stored the last one past
\* the end of the array
C31_WitnessOverrun ==
    /\ cmd = "run"
    /\ Len(FlagValues(cmd, HandlerArgs, "param")) = MAX_PARAMS + 1
    /\ opt.nParams = MAX_PARAMS + 1
    /\ opt.oobStore

\* run was given MAX_PARAMS parameters and set them all
C31_WitnessFull ==
    /\ cmd = "run"
    /\ Len(FlagValues(cmd, HandlerArgs, "param")) = MAX_PARAMS
    /\ Cardinality(OkCallsOf({"DSSetParam"})) = MAX_PARAMS
    /\ ~opt.oobStore
    /\ pc = "exit"

(***************************************************************************)
(* The handlers that query the engine and print what it filled in.         *)
(***************************************************************************)
QueryCommands == ListingCommands \cup {"lprojects", "jobinfo", "stageinfo", "linkinfo"}

QueryOps ==
    {"DSGetProjectList", "DSGetProjectInfo", "DSGetJobInfo", "DSGetStageInfo", "DSGetLinkInfo"}

\* the lines of stdout that print a result structure
PayloadLines == {k \in 1..Len(out) : out[k].text \notin {"<none>", "not available"}}

\* every structure printed is one a successful query filled in, and no
\* structure was read that faulted the process
PrintsFilledOnly ==
    /\ pc # "faulted"
    /\ \A k \in PayloadLines : out[k].n = 1
    /\ Cardinality(PayloadLines) = Cardinality(OkCallsOf(QueryOps))

(***************************************************************************)
(* C32, as claimed: a handler reads and prints the result of an engine     *)
(* query only when that query returned success; after "not available" or   *)
(* an error the structure the engine did not fill in is never read or      *)
(* printed.                                                                *)
(***************************************************************************)
C32_PayloadOnlyOnSuccess == cmd \in QueryCommands => PrintsFilledOnly

\* what the code does: so it is in every query handler but jobLLinks, and
\* in jobLLinks unless its query returned DSJE_NOT_AVAILABLE
C32_PayloadOnlyOnSuccessElsewhere ==
    (cmd \in QueryCommands /\ ~(cmd = "llinks" /\ ListNotAvailable)) => PrintsFilledOnly

\* llinks has printed the indicator and then a link list nothing filled in
C32_WitnessGarbage ==
    /\ cmd = "llinks"
    /\ ListNotAvailable
    /\ out = << Line("<none>", 0), Payload("linkList", FALSE) >>
    /\ pc = "exit"

\* jobinfo has printed what its successful queries filled in and nothing
\* for the two that failed
C32_WitnessInfo ==
    /\ cmd = "jobinfo"
    /\ pc = "exit"
    /\ Cardinality(FailedCallsOf(QueryOps)) = 2
    /\ Cardinality(PayloadLines) = 3

(***************************************************************************)
(* C33: jobRun rejects a -param value without '=' as a validation error,   *)
(* so setParam is only called with text that has an '=': the name it       *)
(* queries and sets is the text before the first '=', which is found, and  *)
(* the value is everything after it, further '=' characters included.      *)
(***************************************************************************)
\* the union members of DSPARAM that hold text
TextMembers == {"pString", "pEncrypt", "pPath", "pListValue", "pDate", "pTime"}

\* call k of setParam is made for the -param token p
CalledFor(k, p) ==
    /\ ContainsEquals(p)
    /\ calls[k].args[1] = RawName(p)
    /\ p = calls[k].args[1] \o "=" \o RawValue(p)
    /\ (calls[k].op = "DSSetParam" /\ calls[k].args[2].member \in TextMembers) =>
          calls[k].args[2].str = RawValue(p)

C33_ParamHasSeparator ==
    (cmd = "run" /\ Validated) =>
        /\ (\E j \in 1..Len(GivenParams) : ~ContainsEquals(GivenParams[j])) =>
              /\ HandlerCalls = { }
              /\ pc = "exit" => (result = DSJE_DSJOB_ERROR /\ ValidationFailed)
        /\ \A k \in CallsOf({"DSGetParamInfo", "DSSetParam"}) :
              /\ ~ContainsEquals(calls[k].args[1])
              /\ \E j \in 1..Len(GivenParams) : CalledFor(k, GivenParams[j])

\* "b=x=y" was split at its first '=': the value "x=y" was set for b
C33_Witness ==
    /\ cmd = "run"
    /\ \E j \in 1..Len(GivenParams) : GivenParams[j] = "b=x=y"
    /\ \E k \in CallsOf({"DSSetParam"}) :
          /\ calls[k].args[1] = "b"
          /\ calls[k].args[2].str = "x=y"

\* "-param novalue" was rejected before any call
C33_WitnessRejected ==
    /\ cmd = "run"
    /\ GivenParams = << "novalue" >>
    /\ pc = "exit"
    /\ result = DSJE_DSJOB_ERROR
    /\ HandlerCalls = { }

(***************************************************************************)
(* C34: while main consumes its global options the argument position plus  *)
(* the count of the arguments that remain is the original argument count,  *)
(* and an argument remains whenever a token is examined: main reads no     *)
(* element of the argument vector at or beyond the original count.         *)
(***************************************************************************)
\* the argument count main was started with
OriginalArgc == Len(argv)

\* the indices of argv main reads in this state: the token it compares with
\* an option name, the value it takes with it, the sub-command token
IndicesRead ==
    CASE pc = "options" ->
            {argPos} \cup (IF argPos < OriginalArgc /\ argv[argPos + 1] = GlobalOptions[optIdx]
                              /\ argc >= 3
                           THEN {argPos + 1} ELSE { })
      [] pc = "command" -> IF argc >= 1 THEN {argPos} ELSE { }
      [] OTHER -> { }

C34_ArgumentsInBounds ==
    /\ pc = "main" => (argPos = 0 /\ argc = OriginalArgc)
    /\ pc # "main" => argPos + argc = OriginalArgc
    /\ pc = "options" => argc >= 1
    /\ \A k \in IndicesRead : k >= 1 /\ k < OriginalArgc
    /\ cmd # "" => (HArgc = OriginalArgc - argPos - 1 /\ HArgc >= 0)

\* main has taken all four options and stands at the sub-command token,
\* the last but two of the vector
C34_Witness ==
    /\ pc = "command"
    /\ OriginalArgc = 12
    /\ argPos = 9
    /\ argc = 3
    /\ conn.password = "pw"

\* "-domain d" and nothing more: the option was not taken, for want of a
\* token after its value
C34_WitnessNoCommand ==
    /\ argv = << "dsjob", "-domain", "d" >>
    /\ pc = "exit"
    /\ argPos = 1 /\ argc = 2
    /\ conn.domain = "NULL"

====
